---- MODULE Spec2Model ----
(***************************************************************************)
(* Model of the text editor widget of src/src/editor/text_editor.py: the   *)
(* bracket/quote auto-editor driven by keyPressEvent, the unclosed-bracket *)
(* scan of _count_unclosed_brackets and the indent-unit detection; and of  *)
(* the syntax highlighter as the specification describes it.               *)
(*                                                                         *)
(* A document is a sequence of one-character strings; "\n" separates the   *)
(* blocks (lines).  A cursor is a position and an anchor, both offsets in  *)
(* 0..Len(text); a selection exists when they differ.                      *)
(***************************************************************************)
EXTENDS Integers, Sequences, FiniteSets, TLC

VARIABLES
    text,       \* the document's plain text
    pos,        \* textCursor().position()
    anchor,     \* textCursor().anchor()
    log,        \* one entry per key event handled so far
    cu_text,    \* _count_unclosed_brackets: the argument
    cu_i,       \* number of characters the loop has consumed
    cu_st,      \* the loop's locals: stack, in_string, escape
    cu_ret,     \* <<>> until the function returns, then <<returned value>>
    di_pc,      \* _detect_indent_unit: "idle", or "loop" while a call runs
    di_i,       \* the loop's block number i
    di_rets,    \* the values returned by the calls made so far, in order
    hl_language,    \* SyntaxHighlighter: the active language name, or None
    hl_patterns,    \* _patterns: the active single-line pattern list
    hl_multiline,   \* _multiline_patterns: the active multiline pattern list
    hl_formats,     \* _formats: the format table
    hl_doc,         \* the highlighted document: the text of each block
    hl_res,         \* per block: the spans last recorded, the stored state
                    \* and the formats the block carries
    hl_pending,     \* the block the host re-highlights next, 0 when none
    hl_stale,       \* the tables changed and no full re-highlight ran yet
    hl_call,        \* <<the direct call of highlight_block just made>>, <<>>
                    \* once the language or the document changed
    hl_last,        \* the last operation on the highlighter
    sv,             \* the SplitViewManager, its window and the tab widgets
    sv_last         \* the last operation on the split view or a tab widget

edVars == <<text, pos, anchor, log>>
cuVars == <<cu_text, cu_i, cu_st, cu_ret>>
diVars == <<di_pc, di_i, di_rets>>
hlVars == <<hl_language, hl_patterns, hl_multiline, hl_formats, hl_doc,
            hl_res, hl_pending, hl_stale, hl_call, hl_last>>
svVars == <<sv, sv_last>>
vars == <<text, pos, anchor, log, cu_text, cu_i, cu_st, cu_ret,
          di_pc, di_i, di_rets,
          hl_language, hl_patterns, hl_multiline, hl_formats, hl_doc,
          hl_res, hl_pending, hl_stale, hl_call, hl_last,
          sv, sv_last>>

(***************************************************************************)
(* Bounds of the model.                                                    *)
(***************************************************************************)
MaxInitLen == 2     \* longest document of the exhaustive initial family
MaxKeys == 2        \* key events per behaviour
MaxScanLen == 4     \* longest argument of the bracket scan
MaxIndentLen == 6   \* longest document of the indent-unit detection
MaxCalls == 2       \* calls of _detect_indent_unit per behaviour
MaxBlocks == 3      \* most blocks of a highlighted document
MaxPanes == 3       \* most panes alive at once
MaxTabs == 2        \* most tabs of a tab widget
MaxTermLen == 4     \* longest line of the stepwise scans
MaxSteps == 8       \* most iterations of one scan loop that are followed
MaxLineLen == 3     \* longest line of the exhaustive family of block texts

None == "None"
PS == "U+2029"      \* what characterAt returns at a block boundary
NUL == "U+0000"     \* what characterAt returns outside the document
BACKTICK == "U+0060" \* the backquote character

Min(a, b) == IF a < b THEN a ELSE b
Max(a, b) == IF a < b THEN b ELSE a

RECURSIVE Spaces(_)
Spaces(n) == IF n = 0 THEN <<>> ELSE <<" ">> \o Spaces(n - 1)

RECURSIVE SeqsUpTo(_, _)
SeqsUpTo(S, n) ==
    IF n = 0 THEN {<<>>}
    ELSE LET shorter == SeqsUpTo(S, n - 1)
         IN  shorter \cup {Append(s, c) : s \in shorter, c \in S}

(***************************************************************************)
(* The static tables of TextEditor.                                        *)
(***************************************************************************)
BRACKET_PAIRS == [c \in {"(", "[", "{"} |->
                    IF c = "(" THEN ")" ELSE IF c = "[" THEN "]" ELSE "}"]
QUOTE_CHARS == {"\"", "'"}
CLOSING_BRACKETS == {")", "]", "}"}

(***************************************************************************)
(* Python string helpers, on sequences of characters.                      *)
(***************************************************************************)
IsSpace(c) == c \in {" ", "\t", "\n"}

RECURSIVE lstrip(_)
lstrip(s) ==
    IF s # <<>> /\ IsSpace(Head(s)) THEN lstrip(Tail(s)) ELSE s

startswith(s, p) ==
    Len(s) >= Len(p) /\ SubSeq(s, 1, Len(p)) = p

endswith(s, p) ==
    Len(s) >= Len(p) /\ SubSeq(s, Len(s) - Len(p) + 1, Len(s)) = p

(***************************************************************************)
(* The host toolkit's document and cursor, as far as the editor uses them. *)
(***************************************************************************)
Doc(t, p, a) == [text |-> t, pos |-> p, anchor |-> a]

characterCount(t) == Len(t) + 1

characterAt(t, p) ==
    IF p >= 0 /\ p < Len(t) THEN (IF t[p + 1] = "\n" THEN PS ELSE t[p + 1])
    ELSE IF p = Len(t) THEN PS
    ELSE NUL

hasSelection(d) == d.pos # d.anchor
selectionStart(d) == Min(d.pos, d.anchor)
selectionEnd(d) == Max(d.pos, d.anchor)

\* QTextCursor.insertText: the selection, if any, is replaced by s and the
\* cursor ends after s with no selection.
insertText(d, s) ==
    LET a == selectionStart(d)
        b == selectionEnd(d)
    IN  Doc(SubSeq(d.text, 1, a) \o s \o SubSeq(d.text, b + 1, Len(d.text)),
            a + Len(s), a + Len(s))

\* QTextCursor.removeSelectedText
removeSelectedText(d) == insertText(d, <<>>)

\* movePosition(Left | Right, mode, n); keep = TRUE is MoveMode.KeepAnchor.
\* The cursor moves one character at a time and stops at the document's
\* ends; without KeepAnchor the anchor follows the position.
moveLeft(d, keep, n) ==
    LET p == Max(d.pos - n, 0)
    IN  Doc(d.text, p, IF keep THEN d.anchor ELSE p)

moveRight(d, keep, n) ==
    LET p == Min(d.pos + n, Len(d.text))
    IN  Doc(d.text, p, IF keep THEN d.anchor ELSE p)

\* Offsets of the start and the end of the block holding offset p.
blockStart(t, p) ==
    CHOOSE i \in 0..p :
        /\ i = 0 \/ t[i] = "\n"
        /\ \A j \in (i + 1)..p : t[j] # "\n"

blockEnd(t, p) ==
    CHOOSE i \in p..Len(t) :
        /\ i = Len(t) \/ t[i + 1] = "\n"
        /\ \A j \in (p + 1)..i : t[j] # "\n"

blockText(t, p) == SubSeq(t, blockStart(t, p) + 1, blockEnd(t, p))

positionInBlock(d) == d.pos - blockStart(d.text, d.pos)

\* movePosition(Up): to the previous block, keeping the column where the
\* line is long enough; no move on the first block.
moveUp(d) ==
    LET bs == blockStart(d.text, d.pos)
    IN  IF bs = 0 THEN d
        ELSE LET ps == blockStart(d.text, bs - 1)
                 p == Min(ps + (d.pos - bs), bs - 1)
             IN  Doc(d.text, p, p)

\* movePosition(EndOfLine)
moveEndOfLine(d) ==
    LET p == blockEnd(d.text, d.pos) IN Doc(d.text, p, p)

\* The blocks of the document, in order: findBlockByNumber(i).text().
RECURSIVE blocks(_)
blocks(t) ==
    LET e == blockEnd(t, 0)
    IN  IF e = Len(t) THEN <<t>>
        ELSE <<SubSeq(t, 1, e)>> \o blocks(SubSeq(t, e + 2, Len(t)))

\* How an edit that removes `removed` characters at offset `at` and then
\* inserts `added` characters there moves another cursor's offset q.
adjustPosition(q, at, removed, added) ==
    IF q < at THEN q
    ELSE IF q < at + removed THEN at + added
    ELSE q - removed + added

(***************************************************************************)
(* TextEditor: pure helpers of the Enter handler.                          *)
(***************************************************************************)
get_leading_whitespace(line) ==
    SubSeq(line, 1, Len(line) - Len(lstrip(line)))

\* detect_line without the test for a leading tab
detect_line_no_tab(line) ==
    LET stripped == lstrip(line)
        ws == SubSeq(line, 1, Len(line) - Len(stripped))
        spaces == SelectSeq(ws, LAMBDA c : c # "\t")
    IN  IF stripped # <<>> /\ line # stripped
           /\ spaces # <<>> /\ Len(spaces) >= 2
        THEN Spaces(Min(Len(spaces), 4))
        ELSE <<>>

\* detect_line without the cap of 4
detect_line_no_cap(line) ==
    LET stripped == lstrip(line)
        ws == SubSeq(line, 1, Len(line) - Len(stripped))
        spaces == SelectSeq(ws, LAMBDA c : c # "\t")
    IN  IF startswith(line, <<"\t">>) THEN <<"\t">>
        ELSE IF stripped # <<>> /\ line # stripped
                /\ spaces # <<>> /\ Len(spaces) >= 2
             THEN Spaces(Len(spaces))
             ELSE <<>>

\* One iteration of the loop of _detect_indent_unit on a block's text: the
\* unit the iteration returns, <<>> when it goes on to the next block.
detect_line(line) ==
    LET stripped == lstrip(line)
        ws == SubSeq(line, 1, Len(line) - Len(stripped))
        spaces == SelectSeq(ws, LAMBDA c : c # "\t")
    IN  IF startswith(line, <<"\t">>) THEN <<"\t">>
        ELSE IF stripped # <<>> /\ line # stripped
                /\ spaces # <<>> /\ Len(spaces) >= 2
             THEN Spaces(Min(Len(spaces), 4))
             ELSE <<>>

RECURSIVE detect_indent_from(_, _)
detect_indent_from(bl, i) ==
    IF i > Len(bl) THEN Spaces(4)
    ELSE IF detect_line(bl[i]) # <<>> THEN detect_line(bl[i])
    ELSE detect_indent_from(bl, i + 1)

detect_indent_unit(t) == detect_indent_from(blocks(t), 1)

\* scan_char closing a quoted run on any of the three quote characters
scan_char_close_any(st, char) ==
    IF st.escape THEN [st EXCEPT !.escape = FALSE]
    ELSE IF char = "\\" THEN [st EXCEPT !.escape = TRUE]
    ELSE IF char \in {"\"", "'", BACKTICK} THEN
        IF st.in_string # None THEN [st EXCEPT !.in_string = None]
        ELSE [st EXCEPT !.in_string = char]
    ELSE IF st.in_string # None THEN st
    ELSE IF char \in DOMAIN BRACKET_PAIRS THEN
        [st EXCEPT !.stack = Append(st.stack, char)]
    ELSE IF char \in CLOSING_BRACKETS THEN
        IF st.stack # <<>>
           /\ BRACKET_PAIRS[st.stack[Len(st.stack)]] = char
        THEN [st EXCEPT !.stack = SubSeq(st.stack, 1, Len(st.stack) - 1)]
        ELSE st
    ELSE st
\* scan_char comparing the closing bracket with the top of the stack itself
scan_char_cmp_top(st, char) ==
    IF st.escape THEN [st EXCEPT !.escape = FALSE]
    ELSE IF char = "\\" THEN [st EXCEPT !.escape = TRUE]
    ELSE IF char \in {"\"", "'", BACKTICK} THEN
        IF st.in_string = char THEN [st EXCEPT !.in_string = None]
        ELSE IF st.in_string = None THEN [st EXCEPT !.in_string = char]
        ELSE st
    ELSE IF st.in_string # None THEN st
    ELSE IF char \in DOMAIN BRACKET_PAIRS THEN
        [st EXCEPT !.stack = Append(st.stack, char)]
    ELSE IF char \in CLOSING_BRACKETS THEN
        IF st.stack # <<>>
           /\ st.stack[Len(st.stack)] = char
        THEN [st EXCEPT !.stack = SubSeq(st.stack, 1, Len(st.stack) - 1)]
        ELSE st
    ELSE st
\* scan_char popping on any closing bracket
scan_char_pop_any(st, char) ==
    IF st.escape THEN [st EXCEPT !.escape = FALSE]
    ELSE IF char = "\\" THEN [st EXCEPT !.escape = TRUE]
    ELSE IF char \in {"\"", "'", BACKTICK} THEN
        IF st.in_string = char THEN [st EXCEPT !.in_string = None]
        ELSE IF st.in_string = None THEN [st EXCEPT !.in_string = char]
        ELSE st
    ELSE IF st.in_string # None THEN st
    ELSE IF char \in DOMAIN BRACKET_PAIRS THEN
        [st EXCEPT !.stack = Append(st.stack, char)]
    ELSE IF char \in CLOSING_BRACKETS THEN
        IF st.stack # <<>>
        THEN [st EXCEPT !.stack = SubSeq(st.stack, 1, Len(st.stack) - 1)]
        ELSE st
    ELSE st

\* One iteration of the loop of _count_unclosed_brackets on character char.
scan_char(st, char) ==
    IF st.escape THEN [st EXCEPT !.escape = FALSE]
    ELSE IF char = "\\" THEN [st EXCEPT !.escape = TRUE]
    ELSE IF char \in {"\"", "'", BACKTICK} THEN
        IF st.in_string = char THEN [st EXCEPT !.in_string = None]
        ELSE IF st.in_string = None THEN [st EXCEPT !.in_string = char]
        ELSE st
    ELSE IF st.in_string # None THEN st
    ELSE IF char \in DOMAIN BRACKET_PAIRS THEN
        [st EXCEPT !.stack = Append(st.stack, char)]
    ELSE IF char \in CLOSING_BRACKETS THEN
        IF st.stack # <<>>
           /\ BRACKET_PAIRS[st.stack[Len(st.stack)]] = char
        THEN [st EXCEPT !.stack = SubSeq(st.stack, 1, Len(st.stack) - 1)]
        ELSE st
    ELSE st

scan_start == [stack |-> <<>>, in_string |-> None, escape |-> FALSE]

RECURSIVE scan_from(_, _, _)
scan_from(st, s, i) ==
    IF i > Len(s) THEN st ELSE scan_from(scan_char(st, s[i]), s, i + 1)

count_unclosed_brackets(s) == Len(scan_from(scan_start, s, 1).stack)

\* adjust_indent_for_closing without the endswith test
adjust_indent_for_closing_always(base_indent, text_after, indent_unit) ==
    LET stripped == lstrip(text_after)
    IN  IF stripped # <<>> /\ stripped[1] \in CLOSING_BRACKETS
        THEN SubSeq(base_indent, 1, Len(base_indent) - Len(indent_unit))
        ELSE base_indent

adjust_indent_for_closing(base_indent, text_after, indent_unit) ==
    LET stripped == lstrip(text_after)
    IN  IF stripped # <<>> /\ stripped[1] \in CLOSING_BRACKETS
           /\ endswith(base_indent, indent_unit)
        THEN SubSeq(base_indent, 1, Len(base_indent) - Len(indent_unit))
        ELSE base_indent

(***************************************************************************)
(* TextEditor: the key handlers.  Each maps the widget's document and      *)
(* cursor before the call to the ones after it; the handlers that report   *)
(* whether they consumed the key also give the returned flag.              *)
(***************************************************************************)

\* The widget's own cursor after a copy c of it replaced c's selection by s
\* without being handed back with setTextCursor.
widgetAfterEdit(d, c, s) ==
    LET at == selectionStart(c)
        removed == selectionEnd(c) - at
        e == insertText(c, s)
    IN  Doc(e.text, adjustPosition(d.pos, at, removed, Len(s)),
            adjustPosition(d.anchor, at, removed, Len(s)))

\* insert_pair without the move back between the two characters
insert_pair_no_left(d, opening, closing) ==
    insertText(d, <<opening, closing>>)

insert_pair(d, opening, closing) ==
    moveLeft(insertText(d, <<opening, closing>>), FALSE, 1)

\* handle_quote skipping over either kind of quote
handle_quote_any_quote(d, quote) ==
    IF d.pos < characterCount(d.text) - 1
       /\ characterAt(d.text, d.pos) \in QUOTE_CHARS
    THEN moveRight(d, FALSE, 1)
    ELSE moveLeft(insertText(d, <<quote, quote>>), FALSE, 1)

handle_quote(d, quote) ==
    IF d.pos < characterCount(d.text) - 1 /\ characterAt(d.text, d.pos) = quote
    THEN moveRight(d, FALSE, 1)
    ELSE moveLeft(insertText(d, <<quote, quote>>), FALSE, 1)

\* skip_if_next_char skipping over whatever character follows
skip_if_next_char_any(d, char) ==
    IF d.pos < characterCount(d.text) - 1
    THEN [doc |-> moveRight(d, FALSE, 1), ret |-> TRUE]
    ELSE [doc |-> d, ret |-> FALSE]

skip_if_next_char(d, char) ==
    IF d.pos < characterCount(d.text) - 1 /\ characterAt(d.text, d.pos) = char
    THEN [doc |-> moveRight(d, FALSE, 1), ret |-> TRUE]
    ELSE [doc |-> d, ret |-> FALSE]

\* handle_backspace_pair removing only the character before the cursor
handle_backspace_pair_one(d) ==
    LET prev_char == characterAt(d.text, d.pos - 1)
        next_char == characterAt(d.text, d.pos)
        pairs == [c \in DOMAIN BRACKET_PAIRS \cup QUOTE_CHARS |->
                    IF c \in QUOTE_CHARS THEN c ELSE BRACKET_PAIRS[c]]
        c1 == moveLeft(d, FALSE, 1)
        c2 == moveRight(c1, TRUE, 1)
    IN  IF hasSelection(d) THEN [doc |-> d, ret |-> FALSE]
        ELSE IF d.pos = 0 \/ d.pos >= characterCount(d.text)
        THEN [doc |-> d, ret |-> FALSE]
        ELSE IF prev_char \in DOMAIN pairs /\ pairs[prev_char] = next_char
        THEN [doc |-> widgetAfterEdit(d, c2, <<>>), ret |-> TRUE]
        ELSE [doc |-> d, ret |-> FALSE]

\* handle_backspace_pair without the selection test
handle_backspace_pair_sel(d) ==
    LET prev_char == characterAt(d.text, d.pos - 1)
        next_char == characterAt(d.text, d.pos)
        pairs == [c \in DOMAIN BRACKET_PAIRS \cup QUOTE_CHARS |->
                    IF c \in QUOTE_CHARS THEN c ELSE BRACKET_PAIRS[c]]
        c1 == moveLeft(d, FALSE, 1)
        c2 == moveRight(c1, TRUE, 2)
    IN  IF d.pos = 0 \/ d.pos >= characterCount(d.text)
        THEN [doc |-> d, ret |-> FALSE]
        ELSE IF prev_char \in DOMAIN pairs /\ pairs[prev_char] = next_char
        THEN [doc |-> widgetAfterEdit(d, c2, <<>>), ret |-> TRUE]
        ELSE [doc |-> d, ret |-> FALSE]

handle_backspace_pair(d) ==
    LET prev_char == characterAt(d.text, d.pos - 1)
        next_char == characterAt(d.text, d.pos)
        pairs == [c \in DOMAIN BRACKET_PAIRS \cup QUOTE_CHARS |->
                    IF c \in QUOTE_CHARS THEN c ELSE BRACKET_PAIRS[c]]
        c1 == moveLeft(d, FALSE, 1)
        c2 == moveRight(c1, TRUE, 2)
    IN  IF hasSelection(d) THEN [doc |-> d, ret |-> FALSE]
        ELSE IF d.pos = 0 \/ d.pos >= characterCount(d.text)
        THEN [doc |-> d, ret |-> FALSE]
        ELSE IF prev_char \in DOMAIN pairs /\ pairs[prev_char] = next_char
        THEN [doc |-> widgetAfterEdit(d, c2, <<>>), ret |-> TRUE]
        ELSE [doc |-> d, ret |-> FALSE]

\* handle_tab_jump jumping over opening brackets too
handle_tab_jump_opening(d) ==
    LET next_char == characterAt(d.text, d.pos)
    IN  IF hasSelection(d) THEN [doc |-> d, ret |-> FALSE]
        ELSE IF d.pos >= characterCount(d.text) THEN [doc |-> d, ret |-> FALSE]
        ELSE IF next_char \in CLOSING_BRACKETS \/ next_char \in QUOTE_CHARS
                \/ next_char \in DOMAIN BRACKET_PAIRS
        THEN [doc |-> moveRight(d, FALSE, 1), ret |-> TRUE]
        ELSE [doc |-> d, ret |-> FALSE]

handle_tab_jump(d) ==
    LET next_char == characterAt(d.text, d.pos)
    IN  IF hasSelection(d) THEN [doc |-> d, ret |-> FALSE]
        ELSE IF d.pos >= characterCount(d.text) THEN [doc |-> d, ret |-> FALSE]
        ELSE IF next_char \in CLOSING_BRACKETS \/ next_char \in QUOTE_CHARS
        THEN [doc |-> moveRight(d, FALSE, 1), ret |-> TRUE]
        ELSE [doc |-> d, ret |-> FALSE]

\* handle_enter_key leaving the cursor on the closing bracket's line
handle_enter_key_no_up(d) ==
    LET current_line == blockText(d.text, d.pos)
        col == positionInBlock(d)
        text_before == SubSeq(current_line, 1, col)
        text_after == SubSeq(current_line, col + 1, Len(current_line))
        base_indent == get_leading_whitespace(current_line)
        indent_unit == detect_indent_unit(d.text)
        has_unclosed == count_unclosed_brackets(text_before) > 0
        new_indent == base_indent \o indent_unit
        stripped_after == lstrip(text_after)
        adjusted_indent ==
            adjust_indent_for_closing(base_indent, text_after, indent_unit)
    IN  IF has_unclosed THEN
            IF stripped_after # <<>> /\ stripped_after[1] \in CLOSING_BRACKETS
            THEN insertText(d, <<"\n">> \o new_indent
                               \o <<"\n">> \o base_indent)
            ELSE widgetAfterEdit(d, d, <<"\n">> \o new_indent)
        ELSE widgetAfterEdit(d, d, <<"\n">> \o adjusted_indent)

\* handle_enter_key indenting by one unit from column 0
handle_enter_key_unit_only(d) ==
    LET current_line == blockText(d.text, d.pos)
        col == positionInBlock(d)
        text_before == SubSeq(current_line, 1, col)
        text_after == SubSeq(current_line, col + 1, Len(current_line))
        base_indent == get_leading_whitespace(current_line)
        indent_unit == detect_indent_unit(d.text)
        has_unclosed == count_unclosed_brackets(text_before) > 0
        new_indent == indent_unit
        stripped_after == lstrip(text_after)
        adjusted_indent ==
            adjust_indent_for_closing(base_indent, text_after, indent_unit)
    IN  IF has_unclosed THEN
            IF stripped_after # <<>> /\ stripped_after[1] \in CLOSING_BRACKETS
            THEN moveEndOfLine(moveUp(
                     insertText(d, <<"\n">> \o new_indent
                                   \o <<"\n">> \o base_indent)))
            ELSE widgetAfterEdit(d, d, <<"\n">> \o new_indent)
        ELSE widgetAfterEdit(d, d, <<"\n">> \o adjusted_indent)

handle_enter_key(d) ==
    LET current_line == blockText(d.text, d.pos)
        col == positionInBlock(d)
        text_before == SubSeq(current_line, 1, col)
        text_after == SubSeq(current_line, col + 1, Len(current_line))
        base_indent == get_leading_whitespace(current_line)
        indent_unit == detect_indent_unit(d.text)
        has_unclosed == count_unclosed_brackets(text_before) > 0
        new_indent == base_indent \o indent_unit
        stripped_after == lstrip(text_after)
        adjusted_indent ==
            adjust_indent_for_closing(base_indent, text_after, indent_unit)
    IN  IF has_unclosed THEN
            IF stripped_after # <<>> /\ stripped_after[1] \in CLOSING_BRACKETS
            THEN moveEndOfLine(moveUp(
                     insertText(d, <<"\n">> \o new_indent
                                   \o <<"\n">> \o base_indent)))
            ELSE widgetAfterEdit(d, d, <<"\n">> \o new_indent)
        ELSE widgetAfterEdit(d, d, <<"\n">> \o adjusted_indent)

\* super().keyPressEvent(event): the toolkit's default handling of the keys
\* the editor lets through.
defaultKeyPress(d, key) ==
    IF key = "Backspace" THEN
        IF hasSelection(d) THEN removeSelectedText(d)
        ELSE IF d.pos = 0 THEN d
        ELSE removeSelectedText(Doc(d.text, d.pos, d.pos - 1))
    ELSE IF key = "Tab" THEN insertText(d, <<"\t">>)
    ELSE insertText(d, <<key>>)

\* The offsets the handlers pass to characterAt in state d.
\* the lookups of _handle_backspace_pair without the test of the boundaries
backspace_pair_lookups_unguarded(d) ==
    IF hasSelection(d) THEN {} ELSE {d.pos - 1, d.pos}

backspace_pair_lookups(d) ==
    IF hasSelection(d) THEN {}
    ELSE IF d.pos = 0 \/ d.pos >= characterCount(d.text) THEN {}
    ELSE {d.pos - 1, d.pos}

\* The lookups of one key event: those of the handler keyPressEvent
\* calls, _handle_quote, _skip_if_next_char, _handle_backspace_pair or
\* _handle_tab_jump.
character_lookups(d, key) ==
    IF key \in QUOTE_CHARS \/ key \in CLOSING_BRACKETS
    THEN IF d.pos < characterCount(d.text) - 1 THEN {d.pos} ELSE {}
    ELSE IF key = "Backspace" THEN backspace_pair_lookups(d)
    ELSE IF key = "Tab"
    THEN IF hasSelection(d) THEN {}
         ELSE IF d.pos >= characterCount(d.text) THEN {}
         ELSE {d.pos}
    ELSE {}

\* keyPressEvent: key is "Enter", "Backspace", "Tab" or the typed character.
\* mid is the state when the editor's own handling is over; handled tells
\* whether the event was consumed without reaching the default handling.
consumed(r) == [doc |-> r, mid |-> r, handled |-> TRUE]
fallThrough(m, key) ==
    [doc |-> defaultKeyPress(m, key), mid |-> m, handled |-> FALSE]

keyPressEvent(d, key) ==
    IF key = "Enter" THEN consumed(handle_enter_key(d))
    ELSE IF key \in DOMAIN BRACKET_PAIRS
    THEN consumed(insert_pair(d, key, BRACKET_PAIRS[key]))
    ELSE IF key \in QUOTE_CHARS THEN consumed(handle_quote(d, key))
    ELSE IF key \in CLOSING_BRACKETS THEN
        LET r == skip_if_next_char(d, key)
        IN  IF r.ret THEN consumed(r.doc) ELSE fallThrough(r.doc, key)
    ELSE IF key = "Backspace" THEN
        LET r == handle_backspace_pair(d)
        IN  IF r.ret THEN consumed(r.doc) ELSE fallThrough(r.doc, key)
    ELSE IF key = "Tab" THEN
        LET r == handle_tab_jump(d)
        IN  IF r.ret THEN consumed(r.doc) ELSE fallThrough(r.doc, key)
    ELSE fallThrough(d, key)

(***************************************************************************)
(* The syntax highlighter (editor/syntax_highlighter.py and                *)
(* editor/language_definitions.py), modelled from sections 3 and 4.1 of    *)
(* the specification.  A block's text is a sequence of characters, offsets *)
(* count from 0 and a span is the half-open range start..end-1.            *)
(***************************************************************************)
TokenType == {"KEYWORD", "STRING", "COMMENT", "NUMBER", "FUNCTION", "OPERATOR"}

\* The format table built at construction: one visual style per token kind
\* (keywords bold, comments italic).
build_formats ==
    [k \in TokenType |->
        [kind |-> k, bold |-> (k = "KEYWORD"), italic |-> (k = "COMMENT")]]

PlainFormat == [kind |-> "PLAIN", bold |-> FALSE, italic |-> FALSE]

\* Matchers: a literal marker, or a literal marker followed by the rest of
\* the line.
Lit(s) == [type |-> "lit", s |-> s]
ToEol(s) == [type |-> "toEol", s |-> s]

Q3 == <<"\"", "\"", "\"">>
A3 == <<"'", "'", "'">>

\* The static registry of languages: single-line patterns in priority
\* order and multiline patterns, each with its token kind.
LANGUAGES ==
    [name \in {"python", "javascript"} |->
        IF name = "python"
        THEN [patterns |->
                << [kind |-> "COMMENT", matcher |-> ToEol(<<"#">>)],
                   [kind |-> "KEYWORD", matcher |-> Lit(<<"d", "e", "f">>)] >>,
              multiline |->
                << [kind |-> "STRING", start |-> Lit(Q3), end |-> Lit(Q3)],
                   [kind |-> "STRING", start |-> Lit(A3), end |-> Lit(A3)] >>]
        ELSE [patterns |->
                << [kind |-> "COMMENT", matcher |-> ToEol(<<"/", "/">>)],
                   [kind |-> "KEYWORD", matcher |-> Lit(<<"a">>)] >>,
              multiline |->
                << [kind |-> "COMMENT", start |-> Lit(<<"/", "*">>),
                    end |-> Lit(<<"*", "/">>)] >>]]

\* A search that reports a match of the empty string where it stands.
search_zero_length(m, line, from) ==
    LET n == Len(m.s)
        C == {p \in from..(Len(line) - n) : SubSeq(line, p + 1, p + n) = m.s}
    IN  IF C = {} THEN <<>>
        ELSE LET p == CHOOSE x \in C : \A y \in C : x <= y
             IN  <<p, IF m.type = "toEol" THEN Len(line) ELSE p + n>>

\* The first match of matcher m in line that starts at offset from or later,
\* as <<start, end>>; <<>> when there is none.  Zero-length matches are
\* ignored.
search(m, line, from) ==
    LET n == Len(m.s)
        C == {p \in from..(Len(line) - n) : SubSeq(line, p + 1, p + n) = m.s}
    IN  IF n = 0 \/ C = {} THEN <<>>
        ELSE LET p == CHOOSE x \in C : \A y \in C : x <= y
             IN  <<p, IF m.type = "toEol" THEN Len(line) ELSE p + n>>

\* All non-overlapping matches of m in line from offset from on, in order.
RECURSIVE finditer(_, _, _)
finditer(m, line, from) ==
    LET r == search(m, line, from)
    IN  IF r = <<>> THEN <<>> ELSE <<r>> \o finditer(m, line, r[2])

\* State bit of the multiline pattern number k (k = 1 is the first).
state_bit(k) == 2 ^ (k - 1)
has_bit(state, k) == (state \div state_bit(k)) % 2 = 1
set_state_bit(state, k) ==
    IF has_bit(state, k) THEN state ELSE state + state_bit(k)

\* An overlap test that never finds an overlap.
overlaps_never(highlighted, s, e) == FALSE

\* The pass's working data: the spans recorded so far, the offsets already
\* highlighted, and the outgoing state built so far.
overlaps(highlighted, s, e) == \E p \in s..(e - 1) : p \in highlighted

record(acc, s, e, kind) ==
    IF s >= e THEN acc
    ELSE [acc EXCEPT !.spans = Append(@, [start |-> s, end |-> e, kind |-> kind]),
                     !.highlighted = @ \cup s..(e - 1)]

\* Step 2, one pattern: every match not covering a highlighted offset is
\* recorded.
RECURSIVE claim_matches(_, _, _, _)
claim_matches(ms, i, kind, acc) ==
    IF i > Len(ms) THEN acc
    ELSE claim_matches(ms, i + 1, kind,
            IF overlaps(acc.highlighted, ms[i][1], ms[i][2]) THEN acc
            ELSE record(acc, ms[i][1], ms[i][2], kind))

\* Step 2: the single-line patterns in table order.
RECURSIVE single_line_pass(_, _, _, _)
single_line_pass(patterns, i, line, acc) ==
    IF i > Len(patterns) THEN acc
    ELSE single_line_pass(patterns, i + 1, line,
            claim_matches(finditer(patterns[i].matcher, line, 0), 1,
                          patterns[i].kind, acc))

\* The first start marker at offset from or later that covers no highlighted
\* offset.
RECURSIVE find_start(_, _, _, _)
find_start(m, line, from, highlighted) ==
    LET r == search(m, line, from)
    IN  IF r = <<>> THEN <<>>
        ELSE IF overlaps(highlighted, r[1], r[2])
        THEN find_start(m, line, r[2], highlighted)
        ELSE r

\* Step 3, outside a region of pattern k: regions that start at offset from
\* or later.
RECURSIVE scan_regions(_, _, _, _, _)
scan_regions(p, k, line, from, acc) ==
    LET s == find_start(p.start, line, from, acc.highlighted)
        e == search(p.end, line, s[2])
    IN  IF s = <<>> THEN acc
        ELSE IF e # <<>>
        THEN scan_regions(p, k, line, e[2], record(acc, s[1], e[2], p.kind))
        ELSE [record(acc, s[1], Len(line), p.kind)
                 EXCEPT !.state = set_state_bit(@, k)]

\* Step 3 without the continuation of a region from the block before.
multiline_pattern_no_carry(p, k, line, prev_state, acc) ==
    scan_regions(p, k, line, 0, acc)

\* Step 3 that takes a start marker wherever it lies, claimed or not.
multiline_pattern_any_start(p, k, line, prev_state, acc) ==
    LET e == search(p.end, line, 0)
        r == scan_regions(p, k, line, 0, [acc EXCEPT !.highlighted = {}])
    IN  IF has_bit(prev_state, k)
        THEN IF e # <<>>
             THEN scan_regions(p, k, line, e[2], record(acc, 0, e[2], p.kind))
             ELSE [record(acc, 0, Len(line), p.kind)
                      EXCEPT !.state = set_state_bit(@, k)]
        ELSE [r EXCEPT !.highlighted = @ \cup acc.highlighted]

\* Step 3 that stops at the end marker of a continued region instead of
\* scanning the rest of the line.
multiline_pattern_stop_at_end(p, k, line, prev_state, acc) ==
    LET e == search(p.end, line, 0)
    IN  IF has_bit(prev_state, k)
        THEN IF e # <<>>
             THEN record(acc, 0, e[2], p.kind)
             ELSE [record(acc, 0, Len(line), p.kind)
                      EXCEPT !.state = set_state_bit(@, k)]
        ELSE scan_regions(p, k, line, 0, acc)

\* Step 3 for the multiline pattern number k.
multiline_pattern(p, k, line, prev_state, acc) ==
    LET e == search(p.end, line, 0)
    IN  IF has_bit(prev_state, k)
        THEN IF e # <<>>
             THEN scan_regions(p, k, line, e[2], record(acc, 0, e[2], p.kind))
             ELSE [record(acc, 0, Len(line), p.kind)
                      EXCEPT !.state = set_state_bit(@, k)]
        ELSE scan_regions(p, k, line, 0, acc)

RECURSIVE multiline_pass(_, _, _, _, _)
multiline_pass(multi, k, line, prev_state, acc) ==
    IF k > Len(multi) THEN acc
    ELSE multiline_pass(multi, k + 1, line, prev_state,
            multiline_pattern(multi[k], k, line, prev_state, acc))

\* Step 4: the format of every character once the recorded spans have been
\* applied in order.
apply_formats(line, spans, formats) ==
    [c \in 1..Len(line) |->
        LET I == {i \in 1..Len(spans) :
                     spans[i].start <= c - 1 /\ c - 1 < spans[i].end}
        IN  IF I = {} THEN PlainFormat
            ELSE formats[spans[CHOOSE i \in I : \A j \in I : j <= i].kind]]

\* highlight_block(line, incoming_state) -> (spans, outgoing_state), with
\* the formats the block ends up with.
highlight_block(line, prev_state, patterns, multi, formats) ==
    LET a0 == [spans |-> <<>>, highlighted |-> {}, state |-> 0]
        a1 == single_line_pass(patterns, 1, line, a0)
        a2 == multiline_pass(multi, 1, line, prev_state, a1)
    IN  [spans |-> a2.spans, state |-> a2.state,
         formats |-> apply_formats(line, a2.spans, formats)]

\* A full re-highlight: every block top to bottom, each from the state the
\* block before it ends in (0 for the first block).
RECURSIVE rehighlight_from(_, _, _, _, _, _)
rehighlight_from(doc, n, prev_state, patterns, multi, formats) ==
    IF n > Len(doc) THEN <<>>
    ELSE LET r == highlight_block(doc[n], prev_state, patterns, multi, formats)
         IN  <<r>> \o rehighlight_from(doc, n + 1, r.state, patterns, multi,
                                       formats)

rehighlight(doc, patterns, multi, formats) ==
    rehighlight_from(doc, 1, 0, patterns, multi, formats)

\* set_language that returns early on an unrecognized name, tables kept.
set_language_keep_tables(name, language, patterns, multi, formats) ==
    IF name = language \/ name \notin DOMAIN LANGUAGES
    THEN [language |-> name, patterns |-> patterns, multiline |-> multi,
          formats |-> formats, loaded |-> FALSE]
    ELSE [language |-> name, patterns |-> LANGUAGES[name].patterns,
          multiline |-> LANGUAGES[name].multiline,
          formats |-> formats, loaded |-> TRUE]

\* set_language without the early return for the active language.
set_language_always_load(name, language, patterns, multi, formats) ==
    IF name \notin DOMAIN LANGUAGES
    THEN [language |-> name, patterns |-> <<>>, multiline |-> <<>>,
          formats |-> formats, loaded |-> FALSE]
    ELSE [language |-> name, patterns |-> LANGUAGES[name].patterns,
          multiline |-> LANGUAGES[name].multiline,
          formats |-> formats, loaded |-> TRUE]

\* set_language(name) on a highlighter whose active language is language:
\* the language and the tables afterwards, and whether tables were loaded.
set_language(name, language, patterns, multi, formats) ==
    IF name = language
    THEN [language |-> language, patterns |-> patterns, multiline |-> multi,
          formats |-> formats, loaded |-> FALSE]
    ELSE IF name \notin DOMAIN LANGUAGES
    THEN [language |-> name, patterns |-> <<>>, multiline |-> <<>>,
          formats |-> formats, loaded |-> FALSE]
    ELSE [language |-> name, patterns |-> LANGUAGES[name].patterns,
          multiline |-> LANGUAGES[name].multiline,
          formats |-> formats, loaded |-> TRUE]


(***************************************************************************)
(* The tab widget of src/src/ui/tab_widget.py.  A tab is its editor's text *)
(* and its document's file_path and is_modified; a tab widget is the list  *)
(* _tabs together with what Qt holds: the current index, the pages in tab  *)
(* bar order and the title of each.  pages[q] is the place in _tabs of the *)
(* tab whose editor is the page number q, 0 once that tab has left _tabs.  *)
(* The files of the disk are the readable paths with their content;        *)
(* opening any other path raises.                                          *)
(***************************************************************************)
ReadablePaths == {"f", "e"}

read_file(path) == IF path = "f" THEN "x" ELSE ""

\* EditorTab(): an empty editor and a fresh Document.
EditorTab == [text |-> "", file_path |-> None, is_modified |-> FALSE]

\* A path that Python takes as true.
truthy(path) == path # None /\ path # ""

\* _update_tab_title(tab) for the tab at place i of _tabs: setTabText at
\* the index the tab has in _tabs.  The title is the document's display
\* name, which follows the file path, and the mark " *" of a modified
\* document.
update_tab_title(tw, i) ==
    IF i <= Len(tw.titles)
    THEN [tw EXCEPT !.titles[i] = [name |-> tw.tabs[i].file_path,
                                   star |-> tw.tabs[i].is_modified]]
    ELSE tw

\* new_tab without the append when the file cannot be read.
new_tab_only_if_read(tw, file_path) ==
    IF truthy(file_path) /\ file_path \notin ReadablePaths THEN tw
    ELSE LET tab == IF truthy(file_path)
                    THEN [text |-> read_file(file_path),
                          file_path |-> file_path, is_modified |-> FALSE]
                    ELSE EditorTab
         IN  [tabs |-> Append(tw.tabs, tab), current |-> Len(tw.pages),
              pages |-> Append(tw.pages, Len(tw.tabs) + 1),
              titles |-> Append(tw.titles,
                                [name |-> tab.file_path, star |-> FALSE])]

\* new_tab(file_path): the tab is appended and made current whether or not
\* the file could be read.
new_tab(tw, file_path) ==
    LET tab == IF truthy(file_path) /\ file_path \in ReadablePaths
               THEN [text |-> read_file(file_path), file_path |-> file_path,
                     is_modified |-> FALSE]
               ELSE EditorTab
    IN  [tabs |-> Append(tw.tabs, tab), current |-> Len(tw.pages),
         pages |-> Append(tw.pages, Len(tw.tabs) + 1),
         titles |-> Append(tw.titles,
                           [name |-> tab.file_path, star |-> FALSE])]

\* TabWidget(): one initial tab.
TabWidget ==
    new_tab([tabs |-> <<>>, current |-> -1, pages |-> <<>>, titles |-> <<>>],
            None)

\* current_tab(): the index into _tabs, -1 for None.
current_tab(tw) ==
    IF 0 <= tw.current /\ tw.current < Len(tw.tabs) THEN tw.current ELSE -1

\* The test of open_file for loading into the current tab.
reuses_current(tw) ==
    /\ current_tab(tw) # -1
    /\ ~tw.tabs[current_tab(tw) + 1].is_modified
    /\ tw.tabs[current_tab(tw) + 1].file_path = None
    /\ tw.tabs[current_tab(tw) + 1].text = ""

\* open_file that loads into the current tab whenever it is unmodified.
open_file_any_unmodified(tw, file_path) ==
    LET c == current_tab(tw)
    IN  IF c # -1 /\ ~tw.tabs[c + 1].is_modified
        THEN IF file_path \in ReadablePaths
             THEN [tw |-> update_tab_title(
                             [tw EXCEPT !.tabs[c + 1] =
                                 [text |-> read_file(file_path),
                                  file_path |-> file_path,
                                  is_modified |-> FALSE]], c + 1),
                   ret |-> TRUE]
             ELSE [tw |-> tw, ret |-> FALSE]
        ELSE [tw |-> new_tab(tw, file_path), ret |-> TRUE]

\* open_file(file_path): the tab widget afterwards and the returned flag.
open_file(tw, file_path) ==
    LET c == current_tab(tw)
    IN  IF reuses_current(tw)
        THEN IF file_path \in ReadablePaths
             THEN [tw |-> update_tab_title(
                             [tw EXCEPT !.tabs[c + 1] =
                                 [text |-> read_file(file_path),
                                  file_path |-> file_path,
                                  is_modified |-> FALSE]], c + 1),
                   ret |-> TRUE]
             ELSE [tw |-> tw, ret |-> FALSE]
        ELSE [tw |-> new_tab(tw, file_path), ret |-> TRUE]

\* _tabs.pop(index) and removeTab(index): the tab at index leaves _tabs and
\* the page at index leaves the tab bar, which selects the tab to the right
\* of a removed current tab, the last one when there is none.
remove_tab(tw, index) ==
    LET n == Len(tw.tabs) - 1
        pop(s, i) == SubSeq(s, 1, i - 1) \o SubSeq(s, i + 1, Len(s))
        left == pop(tw.pages, index + 1)
    IN  [tabs |-> pop(tw.tabs, index + 1),
         current |-> IF index < tw.current THEN tw.current - 1
                     ELSE IF index = tw.current THEN Min(tw.current, n - 1)
                     ELSE tw.current,
         pages |-> [q \in 1..Len(left) |->
                      IF left[q] = index + 1 THEN 0
                      ELSE IF left[q] > index + 1 THEN left[q] - 1
                      ELSE left[q]],
         titles |-> pop(tw.titles, index + 1)]

\* QTabBar.moveTab(from, to): the page and its title change place and the
\* current index follows the page that was current.
move_tab(tw, from, to) ==
    LET rest(s) == SubSeq(s, 1, from) \o SubSeq(s, from + 2, Len(s))
        move(s) == SubSeq(rest(s), 1, to) \o <<s[from + 1]>> \o
                   SubSeq(rest(s), to + 1, Len(rest(s)))
    IN  [tw EXCEPT !.pages = move(@),
                   !.titles = move(@),
                   !.current = IF @ = from THEN to
                               ELSE IF from < @ /\ @ <= to THEN @ - 1
                               ELSE IF to <= @ /\ @ < from THEN @ + 1
                               ELSE @]

\* The place in _tabs of the tab whose editor is displayed: 0 when that tab
\* is not in _tabs or nothing is displayed.
displayed(tw) ==
    IF 0 <= tw.current /\ tw.current < Len(tw.pages)
    THEN tw.pages[tw.current + 1] ELSE 0

\* _on_text_changed(tab) after the user typed new_text into the editor of
\* the tab at place i of _tabs.
on_text_changed(tw, i, new_text) ==
    LET t1 == [tw EXCEPT !.tabs[i].text = new_text]
    IN  IF ~tw.tabs[i].is_modified
        THEN update_tab_title([t1 EXCEPT !.tabs[i].is_modified = TRUE], i)
        ELSE t1

(***************************************************************************)
(* The split view manager of src/src/ui/split_view.py.  Panes are numbered *)
(* from 1, and 0 is a tab widget that belongs to no pane.  The manager m   *)
(* holds _panes, _is_split and _original_size, the size of its window and  *)
(* the tab widget of every pane; a pane that is not in _panes has the tab  *)
(* widget of a new pane.  The handlers also rearrange the Qt widgets       *)
(* (splitters in the main layout); no branch that reads or writes the      *)
(* fields above depends on that arrangement, and it is not modelled.       *)
(***************************************************************************)
PaneIds == 1..MaxPanes

\* Python list helpers.
contains(s, x) == \E i \in 1..Len(s) : s[i] = x
indexOf(s, x) ==
    (CHOOSE i \in 1..Len(s) : s[i] = x /\ \A j \in 1..(i - 1) : s[j] # x) - 1
remove(s, x) ==
    IF contains(s, x)
    THEN SubSeq(s, 1, indexOf(s, x)) \o SubSeq(s, indexOf(s, x) + 2, Len(s))
    ELSE s

split_count(m) == Len(m.panes)

\* The numbers that no pane of the manager carries, and the one a new pane
\* gets.
free_panes(m) == {p \in PaneIds : ~contains(m.panes, p)}
fresh_pane(m) == CHOOSE p \in free_panes(m) : \A q \in free_panes(m) : p <= q

\* store_original_size that overwrites a stored size.
store_original_size_overwrite(m, size) == [m EXCEPT !.original_size = size]

\* store_original_size(size)
store_original_size(m, size) ==
    IF m.original_size = None THEN [m EXCEPT !.original_size = size] ELSE m

\* _restore_original_size()
restore_original_size(m) ==
    IF m.original_size # None
    THEN [m EXCEPT !.win = m.original_size, !.original_size = None]
    ELSE m

\* close_pane that also closes the only remaining pane.
close_pane_last_too(m, pane) ==
    IF ~contains(m.panes, pane)
    THEN [m |-> m, ret |-> FALSE]
    ELSE LET m1 == [m EXCEPT !.panes = remove(@, pane),
                             !.tabs[pane] = TabWidget]
         IN  [m |-> IF Len(m1.panes) = 1
                    THEN restore_original_size([m1 EXCEPT !.is_split = FALSE])
                    ELSE m1,
              ret |-> TRUE]

\* close_pane that restores the size whenever a pane is closed.
close_pane_always_restore(m, pane) ==
    IF ~contains(m.panes, pane) \/ Len(m.panes) <= 1
    THEN [m |-> m, ret |-> FALSE]
    ELSE LET m1 == [m EXCEPT !.panes = remove(@, pane),
                             !.tabs[pane] = TabWidget]
         IN  [m |-> restore_original_size([m1 EXCEPT !.is_split = FALSE]),
              ret |-> TRUE]

\* close_pane(pane): the manager afterwards and the returned flag.
close_pane(m, pane) ==
    IF ~contains(m.panes, pane) \/ Len(m.panes) <= 1
    THEN [m |-> m, ret |-> FALSE]
    ELSE LET m1 == [m EXCEPT !.panes = remove(@, pane),
                             !.tabs[pane] = TabWidget]
         IN  [m |-> IF Len(m1.panes) = 1
                    THEN restore_original_size([m1 EXCEPT !.is_split = FALSE])
                    ELSE m1,
              ret |-> TRUE]

\* _close_tab that removes the last tab as well.
close_tab_remove_last(m, tw, index) ==
    IF index < 0 \/ index >= Len(m.tabs[tw].tabs) THEN m
    ELSE [m EXCEPT !.tabs[tw] = remove_tab(@, index)]

\* TabWidget._close_tab of the tab at index of tab widget tw.  Closing the
\* last tab emits last_tab_closed, which the pane that owns the tab widget
\* passes on as close_requested to _handle_pane_close, that is close_pane.
close_tab(m, tw, index) ==
    IF index < 0 \/ index >= Len(m.tabs[tw].tabs) THEN m
    ELSE IF Len(m.tabs[tw].tabs) <= 1
    THEN IF tw \in PaneIds THEN close_pane(m, tw).m ELSE m
    ELSE [m EXCEPT !.tabs[tw] = remove_tab(@, index)]

\* _create_pane() and _panes.append(new_pane)
append_new_pane(m, new_pane) ==
    [m EXCEPT !.panes = Append(@, new_pane), !.tabs[new_pane] = TabWidget]

\* _handle_split(source_pane, direction, file_path)
handle_split(m, source_pane, direction, file_path) ==
    LET m1 == IF ~m.is_split THEN store_original_size(m, m.win) ELSE m
        new_pane == fresh_pane(m1)
        m2 == append_new_pane(m1, new_pane)
        m3 == IF truthy(file_path)
              THEN [m2 EXCEPT !.tabs[new_pane] = open_file(@, file_path).tw]
              ELSE m2
    IN  [m3 EXCEPT !.is_split = TRUE]

\* _handle_tab_split without the test of the index: a pane is created even
\* when no tab is found.
handle_tab_split_unchecked(m, source_pane, direction, source_tab_widget, tab_index) ==
    LET m1 == IF ~m.is_split THEN store_original_size(m, m.win) ELSE m
        valid == 0 <= tab_index
                 /\ tab_index < Len(m1.tabs[source_tab_widget].tabs)
        tab == m1.tabs[source_tab_widget].tabs[tab_index + 1]
        new_pane == fresh_pane(m1)
        m2 == append_new_pane(m1, new_pane)
        m3 == [m2 EXCEPT !.tabs[new_pane] =
                            update_tab_title([@ EXCEPT !.tabs[1] = tab], 1)]
        m4 == close_tab(m3, source_tab_widget, tab_index)
    IN  IF ~valid THEN [m2 EXCEPT !.is_split = TRUE]
        ELSE [m4 EXCEPT !.is_split = TRUE]

\* _handle_tab_split(source_pane, direction, source_tab_widget, tab_index)
handle_tab_split(m, source_pane, direction, source_tab_widget, tab_index) ==
    LET m1 == IF ~m.is_split THEN store_original_size(m, m.win) ELSE m
        valid == 0 <= tab_index
                 /\ tab_index < Len(m1.tabs[source_tab_widget].tabs)
        tab == m1.tabs[source_tab_widget].tabs[tab_index + 1]
        new_pane == fresh_pane(m1)
        m2 == append_new_pane(m1, new_pane)
        m3 == [m2 EXCEPT !.tabs[new_pane] =
                            update_tab_title([@ EXCEPT !.tabs[1] = tab], 1)]
        m4 == close_tab(m3, source_tab_widget, tab_index)
    IN  IF ~valid THEN m1 ELSE [m4 EXCEPT !.is_split = TRUE]

\* close_all_splits(): the while loop.
RECURSIVE close_all_splits(_)
close_all_splits(m) ==
    IF Len(m.panes) > 1
    THEN close_all_splits(close_pane(m, m.panes[Len(m.panes)]).m)
    ELSE m

\* SplitViewManager() in a window of the given size.
SplitViewManager(size) ==
    [panes |-> <<1>>, is_split |-> FALSE, original_size |-> None,
     win |-> size, tabs |-> [w \in {0} \cup PaneIds |-> TabWidget]]

(***************************************************************************)
(* The editor as a state machine: a document is loaded (setPlainText), the *)
(* user places the cursor or selects, and key events follow.               *)
(***************************************************************************)
InitAlphabet == {"(", ")", "]", "\"", " ", "\n", "a"}

SeedDocs == {
    <<"i", "f", " ", "(">>,
    <<"i", "f", " ", "(", ")">>,
    Spaces(8) \o <<")">>,
    Spaces(4) \o <<"a", "\n", " ", " ", ")">>,
    <<"\t", "(", " ", ")">> }

InitDocs == SeqsUpTo(InitAlphabet, MaxInitLen) \cup SeedDocs

cur == Doc(text, pos, anchor)

cuIdle ==
    /\ cu_text = <<>>
    /\ cu_i = 0
    /\ cu_st = scan_start
    /\ cu_ret = <<>>

svIdle ==
    /\ sv = SplitViewManager("1000x600")
    /\ sv_last = [op |-> "init"]

hlIdle ==
    /\ hl_language = None
    /\ hl_patterns = <<>>
    /\ hl_multiline = <<>>
    /\ hl_formats = build_formats
    /\ hl_doc = << <<>> >>
    /\ hl_res = rehighlight(hl_doc, <<>>, <<>>, build_formats)
    /\ hl_pending = 0
    /\ hl_stale = FALSE
    /\ hl_call = <<>>
    /\ hl_last = [op |-> "init"]

diIdle ==
    /\ di_pc = "idle"
    /\ di_i = 0
    /\ di_rets = <<>>

Init ==
    /\ text \in InitDocs
    /\ pos \in 0..Len(text)
    /\ anchor \in 0..Len(text)
    /\ log = <<>>
    /\ cuIdle
    /\ diIdle
    /\ hlIdle
    /\ svIdle

KeyPress(key) ==
    /\ Len(log) < MaxKeys
    /\ LET r == keyPressEvent(cur, key)
       IN  /\ text' = r.doc.text
           /\ pos' = r.doc.pos
           /\ anchor' = r.doc.anchor
           /\ log' = Append(log, [key |-> key, before |-> cur,
                                  mid |-> r.mid, handled |-> r.handled])
    /\ UNCHANGED <<cuVars, diVars>>
    /\ UNCHANGED hlVars
    /\ UNCHANGED svVars

PressEnter == KeyPress("Enter")
TypeOpening == \E c \in DOMAIN BRACKET_PAIRS : KeyPress(c)
TypeQuote == \E c \in QUOTE_CHARS : KeyPress(c)
TypeClosing == \E c \in CLOSING_BRACKETS : KeyPress(c)
PressBackspace == KeyPress("Backspace")
PressTab == KeyPress("Tab")
TypeOther == KeyPress("a")

Next ==
    \/ PressEnter
    \/ TypeOpening
    \/ TypeQuote
    \/ TypeClosing
    \/ PressBackspace
    \/ PressTab
    \/ TypeOther

Spec == Init /\ [][Next]_vars

(***************************************************************************)
(* _count_unclosed_brackets run on its own, one loop iteration per step.   *)
(***************************************************************************)
ScanAlphabet == {"(", ")", "[", "]", "{", "}", "\"", "'", BACKTICK, "\\", "a"}

InitScan ==
    /\ text = <<>>
    /\ pos = 0
    /\ anchor = 0
    /\ log = <<>>
    /\ cu_text \in SeqsUpTo(ScanAlphabet, MaxScanLen)
    /\ cu_i = 0
    /\ cu_st = scan_start
    /\ cu_ret = <<>>
    /\ diIdle
    /\ hlIdle
    /\ svIdle

ScanStep ==
    /\ cu_ret = <<>>
    /\ cu_i < Len(cu_text)
    /\ cu_st' = scan_char(cu_st, cu_text[cu_i + 1])
    /\ cu_i' = cu_i + 1
    /\ UNCHANGED <<cu_text, cu_ret>>
    /\ UNCHANGED <<edVars, diVars>>
    /\ UNCHANGED hlVars
    /\ UNCHANGED svVars

ScanReturn ==
    /\ cu_ret = <<>>
    /\ cu_i = Len(cu_text)
    /\ cu_ret' = <<Len(cu_st.stack)>>
    /\ UNCHANGED <<cu_text, cu_i, cu_st>>
    /\ UNCHANGED <<edVars, diVars>>
    /\ UNCHANGED hlVars
    /\ UNCHANGED svVars

NextScan ==
    \/ ScanStep
    \/ ScanReturn

SpecScan == InitScan /\ [][NextScan]_vars

(***************************************************************************)
(* _detect_indent_unit called on a loaded document, one loop iteration per *)
(* step; the function may be called again once it has returned.            *)
(***************************************************************************)
IndentAlphabet == {" ", "\t", "a", "\n"}

InitIndent ==
    /\ text \in SeqsUpTo(IndentAlphabet, MaxIndentLen)
    /\ pos \in 0..Len(text)
    /\ anchor = pos
    /\ log = <<>>
    /\ cuIdle
    /\ diIdle
    /\ hlIdle
    /\ svIdle

DetectCall ==
    /\ di_pc = "idle"
    /\ Len(di_rets) < MaxCalls
    /\ di_pc' = "loop"
    /\ di_i' = 0
    /\ UNCHANGED <<di_rets, edVars, cuVars>>
    /\ UNCHANGED hlVars
    /\ UNCHANGED svVars

\* DetectLine putting the widget's cursor on the block it reads
DetectLine_cursor ==
    /\ di_pc = "loop"
    /\ di_i < Len(blocks(text))
    /\ LET r == detect_line(blocks(text)[di_i + 1])
       IN  IF r # <<>>
           THEN /\ di_rets' = Append(di_rets, r)
                /\ di_pc' = "idle"
                /\ di_i' = di_i
           ELSE /\ di_i' = di_i + 1
                /\ UNCHANGED <<di_pc, di_rets>>
    /\ pos' = Min(di_i, Len(text))
    /\ anchor' = pos'
    /\ UNCHANGED <<text, log, cuVars>>
    /\ UNCHANGED hlVars
    /\ UNCHANGED svVars

DetectLine ==
    /\ di_pc = "loop"
    /\ di_i < Len(blocks(text))
    /\ LET r == detect_line(blocks(text)[di_i + 1])
       IN  IF r # <<>>
           THEN /\ di_rets' = Append(di_rets, r)
                /\ di_pc' = "idle"
                /\ di_i' = di_i
           ELSE /\ di_i' = di_i + 1
                /\ UNCHANGED <<di_pc, di_rets>>
    /\ UNCHANGED <<edVars, cuVars>>
    /\ UNCHANGED hlVars
    /\ UNCHANGED svVars

DetectDefault ==
    /\ di_pc = "loop"
    /\ di_i = Len(blocks(text))
    /\ di_rets' = Append(di_rets, Spaces(4))
    /\ di_pc' = "idle"
    /\ UNCHANGED <<di_i, edVars, cuVars>>
    /\ UNCHANGED hlVars
    /\ UNCHANGED svVars

NextIndent ==
    \/ DetectCall
    \/ DetectLine
    \/ DetectDefault

SpecIndent == InitIndent /\ [][NextIndent]_vars

(***************************************************************************)
(* The syntax highlighter as a state machine: a document of blocks with    *)
(* the state and formats each block carries, language changes, edits of    *)
(* one block followed by the host's block-by-block re-highlight, full      *)
(* re-highlights, and direct calls of highlight_block on a highlighter     *)
(* whose document is empty.                                                *)
(***************************************************************************)
DocLines ==
    { <<>>,
      <<"x", " ", "=", " ", "\"", "\"", "\"">>,
      <<"m", "o", "r", "e", " ", "t", "e", "x", "t">>,
      <<"e", "n", "d", "\"", "\"", "\"", " ", "y">>,
      <<"/", "*">>,
      <<"*", "/", "a">> }

HLAlphabet == {"/", "*", "a"}

CallSeeds ==
    { <<"*", "/", "/", "*">>, <<"/", "*", "*", "/">>,
      <<"*", "/", "a", "/", "*">>,
      <<"#", "\"", "\"", "\"">>,
      <<"\"", "\"", "\"", "'", "'", "'">>,
      <<"'", "'", "'", "\"", "\"", "\"">> }

CallLines == SeqsUpTo(HLAlphabet, MaxLineLen) \cup CallSeeds \cup DocLines

LanguageNames == {None, "python", "javascript", "no_such_lang"}

\* The incoming states a direct call passes: every combination of the bits
\* of a registered language's multiline patterns.
IncomingStates ==
    0..(2 ^ Max(Len(LANGUAGES["python"].multiline),
                Len(LANGUAGES["javascript"].multiline)) - 1)

InitHL ==
    /\ text = <<>>
    /\ pos = 0
    /\ anchor = 0
    /\ log = <<>>
    /\ cuIdle
    /\ diIdle
    /\ svIdle
    /\ hl_language = None
    /\ hl_patterns = <<>>
    /\ hl_multiline = <<>>
    /\ hl_formats = build_formats
    /\ \E n \in 1..MaxBlocks : hl_doc \in [1..n -> DocLines]
    /\ hl_res = rehighlight(hl_doc, hl_patterns, hl_multiline, hl_formats)
    /\ hl_pending = 0
    /\ hl_stale = FALSE
    /\ hl_call = <<>>
    /\ hl_last = [op |-> "init"]

\* set_language(name); the caller has to trigger a full re-highlight when the
\* language changed.
SetLanguage(name) ==
    LET r == set_language(name, hl_language, hl_patterns, hl_multiline,
                          hl_formats)
    IN  /\ hl_pending = 0
        /\ hl_language' = r.language
        /\ hl_patterns' = r.patterns
        /\ hl_multiline' = r.multiline
        /\ hl_formats' = r.formats
        /\ hl_stale' = (hl_stale \/ r.language # hl_language)
        /\ hl_last' = [op |-> "set_language", name |-> name,
                       language |-> hl_language, patterns |-> hl_patterns,
                       multiline |-> hl_multiline, formats |-> hl_formats,
                       stale |-> hl_stale, loaded |-> r.loaded]
        /\ hl_call' = <<>>
        /\ UNCHANGED <<hl_doc, hl_res, hl_pending>>
        /\ UNCHANGED <<edVars, cuVars, diVars>>
        /\ UNCHANGED svVars

\* rehighlight(): the whole document, top to bottom.
Rehighlight ==
    /\ hl_pending = 0
    /\ hl_res' = rehighlight(hl_doc, hl_patterns, hl_multiline, hl_formats)
    /\ hl_stale' = FALSE
    /\ hl_last' = [op |-> "rehighlight"]
    /\ UNCHANGED <<hl_language, hl_patterns, hl_multiline, hl_formats, hl_doc,
                   hl_pending, hl_call>>
    /\ UNCHANGED <<edVars, cuVars, diVars>>
    /\ UNCHANGED svVars

\* An edit that changes the text of block n; the host re-highlights from n.
\* The caller of set_language triggers the full re-highlight before the
\* document is edited again.
Edit(n, line) ==
    /\ hl_pending = 0
    /\ ~hl_stale
    /\ n \in 1..Len(hl_doc)
    /\ line # hl_doc[n]
    /\ hl_doc' = [hl_doc EXCEPT ![n] = line]
    /\ hl_pending' = n
    /\ hl_call' = <<>>
    /\ hl_last' = [op |-> "edit", block |-> n]
    /\ UNCHANGED <<hl_language, hl_patterns, hl_multiline, hl_formats, hl_res,
                   hl_stale>>
    /\ UNCHANGED <<edVars, cuVars, diVars>>
    /\ UNCHANGED svVars

\* The host re-highlights the pending block and never goes on to the next.
RehighlightBlock_no_propagate ==
    LET n == hl_pending
        prev_state == IF n = 1 THEN 0 ELSE hl_res[n - 1].state
        r == highlight_block(hl_doc[n], prev_state, hl_patterns, hl_multiline,
                             hl_formats)
    IN  /\ hl_pending # 0
        /\ hl_res' = [hl_res EXCEPT ![n] = r]
        /\ hl_pending' = 0
        /\ UNCHANGED <<hl_language, hl_patterns, hl_multiline, hl_formats,
                       hl_doc, hl_stale, hl_call, hl_last>>
        /\ UNCHANGED <<edVars, cuVars, diVars>>
        /\ UNCHANGED svVars

\* The host re-highlights one block from the current block's own stored state
\* instead of the state of the block before it.
RehighlightBlock_own_state ==
    LET n == hl_pending
        r == highlight_block(hl_doc[n], hl_res[n].state, hl_patterns,
                             hl_multiline, hl_formats)
    IN  /\ hl_pending # 0
        /\ hl_res' = [hl_res EXCEPT ![n] = r]
        /\ hl_pending' = IF r.state # hl_res[n].state /\ n < Len(hl_doc)
                         THEN n + 1 ELSE 0
        /\ UNCHANGED <<hl_language, hl_patterns, hl_multiline, hl_formats,
                       hl_doc, hl_stale, hl_call, hl_last>>
        /\ UNCHANGED <<edVars, cuVars, diVars>>
        /\ UNCHANGED svVars

\* The host re-highlights the pending block from the state of the block
\* before it, and goes on to the next block when the block's state changed.
RehighlightBlock ==
    LET n == hl_pending
        prev_state == IF n = 1 THEN 0 ELSE hl_res[n - 1].state
        r == highlight_block(hl_doc[n], prev_state, hl_patterns, hl_multiline,
                             hl_formats)
    IN  /\ hl_pending # 0
        /\ hl_res' = [hl_res EXCEPT ![n] = r]
        /\ hl_pending' = IF r.state # hl_res[n].state /\ n < Len(hl_doc)
                         THEN n + 1 ELSE 0
        /\ UNCHANGED <<hl_language, hl_patterns, hl_multiline, hl_formats,
                       hl_doc, hl_stale, hl_call, hl_last>>
        /\ UNCHANGED <<edVars, cuVars, diVars>>
        /\ UNCHANGED svVars

\* A direct call highlight_block(line, incoming) on a highlighter whose
\* document is empty.
HighlightBlock(line, incoming) ==
    /\ hl_pending = 0
    /\ hl_doc = << <<>> >>
    /\ hl_call' = << [line |-> line, incoming |-> incoming,
                      patterns |-> hl_patterns, multiline |-> hl_multiline,
                      result |-> highlight_block(line, incoming, hl_patterns,
                                                 hl_multiline, hl_formats)] >>
    /\ hl_last' = [op |-> "highlight_block"]
    /\ UNCHANGED <<hl_language, hl_patterns, hl_multiline, hl_formats, hl_doc,
                   hl_res, hl_pending, hl_stale>>
    /\ UNCHANGED <<edVars, cuVars, diVars>>
    /\ UNCHANGED svVars

NextHL ==
    \/ \E name \in LanguageNames : SetLanguage(name)
    \/ Rehighlight
    \/ \E n \in 1..MaxBlocks, line \in DocLines : Edit(n, line)
    \/ RehighlightBlock
    \/ \E line \in CallLines, incoming \in IncomingStates :
          HighlightBlock(line, incoming)

SpecHL == InitHL /\ [][NextHL]_vars

\* Edits alone, on documents of the three lines of a string that spans
\* blocks.  The host's re-highlight is a loop inside one handler, so it
\* keeps running while a block is pending.
EditLines ==
    { <<"x", " ", "=", " ", "\"", "\"", "\"">>,
      <<"m", "o", "r", "e", " ", "t", "e", "x", "t">>,
      <<"e", "n", "d", "\"", "\"", "\"", " ", "y">> }

InitEdit ==
    /\ InitHL
    /\ \A n \in 1..Len(hl_doc) : hl_doc[n] \in EditLines

NextEdit ==
    \/ SetLanguage("python")
    \/ Rehighlight
    \/ \E n \in 1..MaxBlocks, line \in EditLines : Edit(n, line)
    \/ RehighlightBlock

SpecEdit == InitEdit /\ [][NextEdit]_vars /\ WF_vars(RehighlightBlock)

(***************************************************************************)
(* The split view as a state machine: files and tabs dropped on a pane,    *)
(* panes and tabs closed, close_all_splits and the user resizing the       *)
(* window.  sv_last records the last operation, its arguments and the flag *)
(* it returned.                                                            *)
(***************************************************************************)
Sizes == {"1000x600", "1200x800"}
Directions == {"right", "bottom"}
DropPaths == {"f", "bad"}
OpenPaths == {"f", "e", "bad"}
Texts == {"", "y"}

\* The tab widgets that exist: the one of every pane of the manager and the
\* one that belongs to no pane.
TabWidgets == {0} \cup {sv.panes[i] : i \in 1..Len(sv.panes)}

InitSplit ==
    /\ text = <<>>
    /\ pos = 0
    /\ anchor = 0
    /\ log = <<>>
    /\ cuIdle
    /\ diIdle
    /\ hlIdle
    /\ \E size \in Sizes : sv = SplitViewManager(size)
    /\ sv_last = [op |-> "init"]

\* What an operation leaves of the rest of the model.
SplitFrame == UNCHANGED <<edVars, cuVars, diVars, hlVars>>

\* dropEvent with a file: the zone is one of the four, so the pane emits
\* split_requested
DropFile(source_pane, direction, file_path) ==
    /\ contains(sv.panes, source_pane)
    /\ Len(sv.panes) < MaxPanes
    /\ sv' = handle_split(sv, source_pane, direction, file_path)
    /\ sv_last' = [op |-> "split"]
    /\ SplitFrame

\* dropEvent with a dragged tab: split_with_tab_requested.  sv_last records
\* the source tab widget, the index and whether a tab was found at it.
DropTab(source_pane, direction, source_tab_widget, tab_index) ==
    /\ contains(sv.panes, source_pane)
    /\ source_tab_widget \in TabWidgets
    /\ Len(sv.panes) < MaxPanes
    /\ sv' = handle_tab_split(sv, source_pane, direction, source_tab_widget,
                              tab_index)
    /\ sv_last' = [op |-> "tab_split", tw |-> source_tab_widget,
                   tab_index |-> tab_index,
                   found |-> /\ 0 <= tab_index
                             /\ tab_index < Len(sv.tabs[source_tab_widget].tabs)]
    /\ SplitFrame

\* close_pane(pane), for a pane of the manager or any other pane
ClosePane(pane) ==
    /\ sv' = close_pane(sv, pane).m
    /\ sv_last' = [op |-> "close_pane", pane |-> pane,
                   ret |-> close_pane(sv, pane).ret]
    /\ SplitFrame

\* The close button of the page of a tab of _tabs: _close_tab(tab)
CloseTab(tw, index) ==
    /\ tw \in TabWidgets
    /\ index < Len(sv.tabs[tw].tabs)
    /\ \E q \in 1..Len(sv.tabs[tw].pages) : sv.tabs[tw].pages[q] = index + 1
    /\ sv' = close_tab(sv, tw, index)
    /\ sv_last' = [op |-> "close_tab", tw |-> tw, index |-> index]
    /\ SplitFrame

\* close_all_splits()
CloseAllSplits ==
    /\ sv' = close_all_splits(sv)
    /\ sv_last' = [op |-> "close_all_splits"]
    /\ SplitFrame

\* store_original_size(size) called from outside
StoreOriginalSize(size) ==
    /\ sv' = store_original_size(sv, size)
    /\ sv_last' = [op |-> "store_original_size", size |-> size]
    /\ SplitFrame

\* The user resizes the window.
ResizeWindow(size) ==
    /\ size # sv.win
    /\ sv' = [sv EXCEPT !.win = size]
    /\ sv_last' = [op |-> "resize"]
    /\ SplitFrame

\* new_tab() in a tab widget
NewTab(tw, file_path) ==
    /\ tw \in TabWidgets
    /\ Len(sv.tabs[tw].tabs) < MaxTabs
    /\ sv' = [sv EXCEPT !.tabs[tw] = new_tab(@, file_path)]
    /\ sv_last' = [op |-> "new_tab", tw |-> tw, file_path |-> file_path]
    /\ SplitFrame

NextSplit ==
    \/ \E p \in PaneIds, d \in Directions, f \in DropPaths : DropFile(p, d, f)
    \/ \E p \in PaneIds, d \in Directions, tw \in {0} \cup PaneIds,
          i \in 0..MaxTabs : DropTab(p, d, tw, i)
    \/ \E p \in PaneIds : ClosePane(p)
    \/ \E tw \in {0} \cup PaneIds, i \in 0..(MaxTabs - 1) : CloseTab(tw, i)
    \/ CloseAllSplits
    \/ \E size \in Sizes : StoreOriginalSize(size)
    \/ \E size \in Sizes : ResizeWindow(size)
    \/ \E tw \in PaneIds : NewTab(tw, None)

SpecSplit == InitSplit /\ [][NextSplit]_vars

(***************************************************************************)
(* The two loops of highlight_block, one iteration at a time, on one line  *)
(* and one pattern: the loop over the matches of a single-line pattern     *)
(* and the loop over the regions of a multiline pattern.  hl_call holds    *)
(* the scan: the line, the pattern's matcher (start) or markers (start and *)
(* end), the offsets highlighted before the pattern ran, whether the block *)
(* starts inside the region, the offset the next search starts from, the   *)
(* iterations made and whether the loop is over.                           *)
(***************************************************************************)
InitTerm ==
    /\ text = <<>>
    /\ pos = 0
    /\ anchor = 0
    /\ log = <<>>
    /\ cuIdle
    /\ diIdle
    /\ svIdle
    /\ hl_language = None
    /\ hl_patterns = <<>>
    /\ hl_multiline = <<>>
    /\ hl_formats = build_formats
    /\ hl_doc = << <<>> >>
    /\ hl_res = rehighlight(hl_doc, <<>>, <<>>, build_formats)
    /\ hl_pending = 0
    /\ hl_stale = FALSE
    /\ hl_last = [op |-> "init"]
    /\ \E line \in SeqsUpTo({"/", "*"}, MaxTermLen),
          s, e \in {Lit(<<>>), Lit(<<"/">>), Lit(<<"*">>), Lit(<<"/", "*">>),
                    Lit(<<"*", "/">>)},
          multi, inside \in BOOLEAN, claimed \in SUBSET (0..(MaxTermLen - 1)) :
          /\ ~multi => (e = s /\ ~inside /\ claimed = {})
          /\ claimed \subseteq 0..(Len(line) - 1)
          /\ hl_call = << [line |-> line, start |-> s, end |-> e,
                           multi |-> multi, claimed |-> claimed,
                           inside |-> inside, from |-> 0, steps |-> 0,
                           done |-> FALSE] >>

\* One iteration of the loop over the matches of a single-line pattern.
MatchStep ==
    LET c == hl_call[1]
        r == search(c.start, c.line, c.from)
    IN  /\ ~c.multi /\ ~c.done /\ c.steps < MaxSteps
        /\ hl_call' = << IF r = <<>>
                         THEN [c EXCEPT !.done = TRUE, !.steps = @ + 1]
                         ELSE [c EXCEPT !.from = r[2], !.steps = @ + 1] >>
        /\ hl_last' = [op |-> "scan"]
        /\ UNCHANGED <<hl_language, hl_patterns, hl_multiline, hl_formats,
                       hl_doc, hl_res, hl_pending, hl_stale>>
        /\ UNCHANGED <<edVars, cuVars, diVars>>
        /\ UNCHANGED svVars

\* One iteration of the loop over the regions of a multiline pattern: the
\* end of the region the block starts in, or the next region.
RegionStep ==
    LET c == hl_call[1]
        s == find_start(c.start, c.line, c.from, c.claimed)
        e == search(c.end, c.line, IF c.inside THEN 0 ELSE s[2])
    IN  /\ c.multi /\ ~c.done /\ c.steps < MaxSteps
        /\ hl_call' = << IF (~c.inside /\ s = <<>>) \/ e = <<>>
                         THEN [c EXCEPT !.done = TRUE, !.steps = @ + 1]
                         ELSE [c EXCEPT !.from = e[2], !.inside = FALSE,
                                        !.steps = @ + 1] >>
        /\ hl_last' = [op |-> "scan"]
        /\ UNCHANGED <<hl_language, hl_patterns, hl_multiline, hl_formats,
                       hl_doc, hl_res, hl_pending, hl_stale>>
        /\ UNCHANGED <<edVars, cuVars, diVars>>
        /\ UNCHANGED svVars

NextTerm ==
    \/ MatchStep
    \/ RegionStep

SpecTerm == InitTerm /\ [][NextTerm]_vars

(***************************************************************************)
(* One tab widget on its own: files opened, tabs added, selected, edited   *)
(* and closed.  sv_last records the call of open_file: the tab widget, the *)
(* path and the returned flag.                                             *)
(***************************************************************************)
\* open_file(file_path)
OpenFile(tw, file_path) ==
    /\ tw \in TabWidgets
    /\ Len(sv.tabs[tw].tabs) < MaxTabs
    /\ sv' = [sv EXCEPT !.tabs[tw] = open_file(@, file_path).tw]
    /\ sv_last' = [op |-> "open_file", tw |-> tw, file_path |-> file_path,
                   ret |-> open_file(sv.tabs[tw], file_path).ret]
    /\ SplitFrame

\* The user types in the editor that is displayed: textChanged reaches
\* _on_text_changed with the tab of that editor.
EditText(tw, new_text) ==
    /\ tw \in TabWidgets
    /\ displayed(sv.tabs[tw]) # 0
    /\ new_text # sv.tabs[tw].tabs[displayed(sv.tabs[tw])].text
    /\ sv' = [sv EXCEPT !.tabs[tw] =
                           on_text_changed(@, displayed(@), new_text)]
    /\ sv_last' = [op |-> "edit"]
    /\ SplitFrame

\* The user selects a tab: setCurrentIndex(index)
SelectTab(tw, index) ==
    /\ tw \in TabWidgets
    /\ index < Len(sv.tabs[tw].tabs)
    /\ index # sv.tabs[tw].current
    /\ sv' = [sv EXCEPT !.tabs[tw].current = index]
    /\ sv_last' = [op |-> "select_tab"]
    /\ SplitFrame

\* The tab bar is movable: the page at from is moved to the place to.
MoveTab(tw, from, to) ==
    /\ tw \in TabWidgets
    /\ from < Len(sv.tabs[tw].pages) /\ to < Len(sv.tabs[tw].pages)
    /\ from # to
    /\ sv' = [sv EXCEPT !.tabs[tw] = move_tab(@, from, to)]
    /\ sv_last' = [op |-> "move_tab"]
    /\ SplitFrame

\* _close_tab(tab) for a tab that is not in _tabs: the first test returns.
CloseForeignTab(tw) ==
    /\ tw \in TabWidgets
    /\ sv' = close_tab(sv, tw, Len(sv.tabs[tw].tabs))
    /\ sv_last' = [op |-> "close_foreign_tab", tw |-> tw]
    /\ SplitFrame

NextTabs ==
    \/ \E f \in OpenPaths : OpenFile(0, f)
    \/ \E f \in OpenPaths \cup {None} : NewTab(0, f)
    \/ \E t \in Texts : EditText(0, t)
    \/ \E i \in 0..(MaxTabs - 1) : SelectTab(0, i)
    \/ \E i \in 0..(MaxTabs - 1) : CloseTab(0, i)

SpecTabs == InitSplit /\ [][NextTabs]_vars

(***************************************************************************)
(* One tab widget whose tabs are added, selected, moved in the tab bar and *)
(* closed, by their close button or by a call of _close_tab with a tab of  *)
(* no page of the widget.                                                  *)
(***************************************************************************)
NextMove ==
    \/ \E f \in {None, "f", "bad"} : NewTab(0, f)
    \/ \E i \in 0..(MaxTabs - 1) : SelectTab(0, i)
    \/ \E i, j \in 0..(MaxTabs - 1) : MoveTab(0, i, j)
    \/ \E i \in 0..(MaxTabs - 1) : CloseTab(0, i)
    \/ CloseForeignTab(0)

SpecMove == InitSplit /\ [][NextMove]_vars

(***************************************************************************)
(* Properties.  log[i] describes the i-th key event: the key, the state    *)
(* before it, the state when the editor's own handler was over, and        *)
(* whether the event was consumed.  StateAfter(i) is the state the event   *)
(* left behind.                                                            *)
(***************************************************************************)
StateAfter(i) == IF i = Len(log) THEN cur ELSE log[i + 1].before

NoSelection(d) == d.pos = d.anchor

\* t with the characters at offsets a..b-1 replaced by s
Splice(t, a, b, s) == SubSeq(t, 1, a) \o s \o SubSeq(t, b + 1, Len(t))

\* d.text with the selection of d (nothing, if there is none) replaced by s
SelectionReplaced(d, s) ==
    IF d.pos <= d.anchor THEN Splice(d.text, d.pos, d.anchor, s)
    ELSE Splice(d.text, d.anchor, d.pos, s)

CloserOf(c) == CASE c = "(" -> ")" [] c = "[" -> "]" [] c = "{" -> "}"

\* the character of t right after offset p, "" when there is none
NextChar(t, p) == IF p < Len(t) THEN t[p + 1] ELSE ""
\* the character of t right before offset p, "" when there is none
PrevChar(t, p) == IF p > 0 THEN t[p] ELSE ""

\* C1: with no selection, typing ( [ or { at p puts the bracket and its
\* closer at p, leaves the cursor at p+1 between them, and the key never
\* reaches the default insertion.
C1_OpeningInsertsPair ==
    \A i \in 1..Len(log) :
        LET e == log[i]
            b == e.before
            a == StateAfter(i)
        IN  (e.key \in {"(", "[", "{"} /\ NoSelection(b)) =>
                /\ a.text = Splice(b.text, b.pos, b.pos, <<e.key, CloserOf(e.key)>>)
                /\ a.pos = b.pos + 1
                /\ a.anchor = a.pos
                /\ e.handled

\* '(' typed in the empty document: text '()' and cursor 1
C1_Witness ==
    /\ Len(log) = 1
    /\ log[1].key = "("
    /\ log[1].before = Doc(<<>>, 0, 0)
    /\ text = <<"(", ")">>
    /\ pos = 1

\* C2: a closing bracket typed before the same bracket moves the cursor one
\* to the right and leaves the text alone; otherwise the handler reports no
\* skip, has changed nothing, and the default handling inserts exactly one
\* closer.
C2_ClosingSkipsOrFallsThrough ==
    \A i \in 1..Len(log) :
        LET e == log[i]
            b == e.before
            a == StateAfter(i)
        IN  e.key \in {")", "]", "}"} =>
                IF NextChar(b.text, b.pos) = e.key
                THEN /\ e.handled
                     /\ a.text = b.text
                     /\ a.pos = b.pos + 1
                ELSE /\ ~e.handled
                     /\ e.mid = b
                     /\ a.text = SelectionReplaced(b, <<e.key>>)

\* ')' typed in '()' at offset 1: text unchanged, cursor 2
C2_Witness ==
    /\ Len(log) = 1
    /\ log[1].key = ")"
    /\ log[1].before = Doc(<<"(", ")">>, 1, 1)
    /\ log[1].handled
    /\ text = <<"(", ")">>
    /\ pos = 2

\* C3: a quote typed before the same quote moves the cursor one to the right
\* and leaves the text alone; in every other case two copies of the quote
\* are inserted (in place of the selection, if there is one) with the cursor
\* between them; the key never reaches the default insertion.
C3_QuoteSkipsOrPairs ==
    \A i \in 1..Len(log) :
        LET e == log[i]
            b == e.before
            a == StateAfter(i)
        IN  e.key \in {"\"", "'"} =>
                /\ e.handled
                /\ IF NextChar(b.text, b.pos) = e.key
                   THEN /\ a.text = b.text
                        /\ a.pos = b.pos + 1
                   ELSE /\ a.text = SelectionReplaced(b, <<e.key, e.key>>)
                        /\ a.pos = Min(b.pos, b.anchor) + 1
                        /\ NoSelection(b) =>
                             a.text = Splice(b.text, b.pos, b.pos, <<e.key, e.key>>)
                /\ a.anchor = a.pos

\* a single quote typed right before a double quote is paired, not skipped
C3_Witness ==
    /\ Len(log) = 1
    /\ log[1].key = "'"
    /\ log[1].before = Doc(<<"a", "\"">>, 1, 1)
    /\ text = <<"a", "'", "'", "\"">>
    /\ pos = 2

PairAround(d) ==
    <<PrevChar(d.text, d.pos), NextChar(d.text, d.pos)>> \in
        {<<"(", ")">>, <<"[", "]">>, <<"{", "}">>, <<"\"", "\"">>, <<"'", "'">>}

\* C4: Backspace deletes a pair exactly when there is no selection, the
\* cursor is neither at offset 0 nor at the end and it stands between (),
\* [], {}, "" or ''; both characters go and the cursor ends one to the left.
\* Otherwise the handler changes nothing and the default deletion runs: it
\* removes the selection or, with none, the character before the cursor.
C4_BackspacePair ==
    \A i \in 1..Len(log) :
        LET e == log[i]
            b == e.before
            a == StateAfter(i)
        IN  e.key = "Backspace" =>
                IF /\ NoSelection(b)
                   /\ b.pos # 0
                   /\ b.pos # Len(b.text)
                   /\ PairAround(b)
                THEN /\ e.handled
                     /\ a.text = Splice(b.text, b.pos - 1, b.pos + 1, <<>>)
                     /\ a.pos = b.pos - 1
                     /\ a.anchor = a.pos
                ELSE /\ ~e.handled
                     /\ e.mid = b
                     /\ a.text = IF ~NoSelection(b) THEN SelectionReplaced(b, <<>>)
                                 ELSE IF b.pos = 0 THEN b.text
                                 ELSE Splice(b.text, b.pos - 1, b.pos, <<>>)

\* Backspace in '()' at offset 1 empties the document
C4_Witness ==
    /\ Len(log) = 1
    /\ log[1].key = "Backspace"
    /\ log[1].before = Doc(<<"(", ")">>, 1, 1)
    /\ log[1].handled
    /\ text = <<>>
    /\ pos = 0

\* C5: Tab moves the cursor one to the right, text unchanged, exactly when
\* there is no selection and the character at the cursor is ) ] } or a
\* quote; otherwise the handler returns False having moved nothing and the
\* key reaches the default tab handling.
C5_TabJump ==
    \A i \in 1..Len(log) :
        LET e == log[i]
            b == e.before
            a == StateAfter(i)
        IN  e.key = "Tab" =>
                IF /\ NoSelection(b)
                   /\ NextChar(b.text, b.pos) \in {")", "]", "}", "\"", "'"}
                THEN /\ e.handled
                     /\ a.text = b.text
                     /\ a.pos = b.pos + 1
                     /\ a.anchor = a.pos
                ELSE /\ ~e.handled
                     /\ e.mid = b

\* Tab in '()' at offset 1 jumps to offset 2
C5_Witness ==
    /\ Len(log) = 1
    /\ log[1].key = "Tab"
    /\ log[1].before = Doc(<<"(", ")">>, 1, 1)
    /\ log[1].handled
    /\ text = <<"(", ")">>
    /\ pos = 2

\* C6 as stated: typing an opening bracket and then Backspace gives back the
\* text and the cursor position, for any document and cursor.
C6_RoundTripAnyCursor ==
    \A i \in 1..(Len(log) - 1) :
        LET b == log[i].before
            a == StateAfter(i + 1)
        IN  (log[i].key \in {"(", "[", "{"} /\ log[i + 1].key = "Backspace") =>
                /\ a.text = b.text
                /\ a.pos = b.pos

\* C6 amended: with no selection, typing an opening bracket and then
\* Backspace gives back the exact text and the cursor position.
C6_RoundTripNoSelection ==
    \A i \in 1..(Len(log) - 1) :
        LET b == log[i].before
            a == StateAfter(i + 1)
        IN  (/\ log[i].key \in {"(", "[", "{"}
             /\ log[i + 1].key = "Backspace"
             /\ NoSelection(b)) =>
                /\ a.text = b.text
                /\ a.pos = b.pos
                /\ a.anchor = b.anchor

\* '[' then Backspace in the middle of 'a)' gives 'a)' back, cursor at 1
C6_Witness ==
    /\ Len(log) = 2
    /\ log[1].key = "["
    /\ log[1].before = Doc(<<"a", ")">>, 1, 1)
    /\ log[2].key = "Backspace"
    /\ log[2].before = Doc(<<"a", "[", "]", ")">>, 2, 2)
    /\ log[2].handled
    /\ text = <<"a", ")">>
    /\ pos = 1

(***************************************************************************)
(* The Enter key.  The line of the cursor, its part before the cursor and  *)
(* its part after it, written without the model's block operators.         *)
(***************************************************************************)
LineStart(t, p) ==
    LET nl == {i \in 1..p : t[i] = "\n"}
    IN  IF nl = {} THEN 0 ELSE CHOOSE i \in nl : \A j \in nl : j <= i

LineEnd(t, p) ==
    LET nl == {i \in (p + 1)..Len(t) : t[i] = "\n"}
    IN  IF nl = {} THEN Len(t) ELSE (CHOOSE i \in nl : \A j \in nl : i <= j) - 1

LinePrefix(d) == SubSeq(d.text, LineStart(d.text, d.pos) + 1, d.pos)
LineSuffix(d) == SubSeq(d.text, d.pos + 1, LineEnd(d.text, d.pos))

\* number of leading blanks and tabs of s
WsLen(s) ==
    CHOOSE k \in 0..Len(s) :
        /\ \A j \in 1..k : s[j] \in {" ", "\t"}
        /\ k = Len(s) \/ s[k + 1] \notin {" ", "\t"}

LineIndent(d) ==
    LET line == LinePrefix(d) \o LineSuffix(d) IN SubSeq(line, 1, WsLen(line))

CloserAhead(d) ==
    LET s == LineSuffix(d)
    IN  WsLen(s) < Len(s) /\ s[WsLen(s) + 1] \in {")", "]", "}"}

UnclosedBefore(d) == count_unclosed_brackets(LinePrefix(d))
IndentUnit(d) == detect_indent_unit(d.text)
NL == <<"\n">>

\* the line of offset p in t
LineAt(t, p) == SubSeq(t, LineStart(t, p) + 1, LineEnd(t, p))

C8_EnterAfterUnclosed ==
    \A i \in 1..Len(log) :
        LET e == log[i]
            b == e.before
            a == StateAfter(i)
            ins == NL \o LineIndent(b) \o IndentUnit(b)
        IN  (e.key = "Enter" /\ UnclosedBefore(b) > 0 /\ ~CloserAhead(b)) =>
                /\ e.handled
                /\ a.text = SelectionReplaced(b, ins)
                /\ a.pos = Min(b.pos, b.anchor) + Len(ins)
                /\ a.anchor = a.pos
                /\ b = Doc(<<"i", "f", " ", "(">>, 4, 4) =>
                     /\ a.text = <<"i", "f", " ", "(", "\n", " ", " ", " ", " ">>
                     /\ a.pos = 9

\* Enter at the end of 'if ('
C8_Witness ==
    /\ Len(log) = 1
    /\ log[1].key = "Enter"
    /\ log[1].before = Doc(<<"i", "f", " ", "(">>, 4, 4)
    /\ text = <<"i", "f", " ", "(", "\n", " ", " ", " ", " ">>
    /\ pos = 9

\* the indent of the new line when nothing is unclosed before the cursor
DedentedIndent(d) ==
    LET base == LineIndent(d)
        unit == IndentUnit(d)
        n == Len(base) - Len(unit)
    IN  IF CloserAhead(d) /\ n >= 0 /\ SubSeq(base, n + 1, Len(base)) = unit
        THEN SubSeq(base, 1, n)
        ELSE base

\* C9: Enter with nothing unclosed before the cursor inserts one newline
\* followed by the line's leading whitespace, less one trailing indent unit
\* when a closing bracket is ahead and the whitespace ends with the unit.
C9_EnterNoUnclosed ==
    \A i \in 1..Len(log) :
        LET e == log[i]
            b == e.before
            a == StateAfter(i)
        IN  (e.key = "Enter" /\ UnclosedBefore(b) = 0) =>
                /\ e.handled
                /\ a.text = SelectionReplaced(b, NL \o DedentedIndent(b))
                /\ a.pos = Min(b.pos, b.anchor) + 1 + Len(DedentedIndent(b))
                /\ b = Doc(Spaces(8) \o <<")">>, 8, 8) =>
                     a.text = Spaces(8) \o NL \o Spaces(4) \o <<")">>
                /\ b = Doc(Spaces(4) \o <<"a", "\n", " ", " ", ")">>, 8, 8) =>
                     a.text = Spaces(4) \o <<"a", "\n", " ", " ", "\n", " ", " ", ")">>
                /\ b = Doc(<<" ", "a">>, 1, 1) =>
                     a.text = <<" ", "\n", " ", "a">>

\* Enter before the ')' of a line indented by 2 in a document whose unit is
\* 4: the indent stays 2
C9_Witness ==
    /\ Len(log) = 1
    /\ log[1].key = "Enter"
    /\ log[1].before = Doc(Spaces(4) \o <<"a", "\n", " ", " ", ")">>, 8, 8)
    /\ text = Spaces(4) \o <<"a", "\n", " ", " ", "\n", " ", " ", ")">>
    /\ pos = 11

(***************************************************************************)
(* The unclosed-bracket scan.                                              *)
(***************************************************************************)
\* the character the next loop iteration looks at
ScanNextChar == cu_text[cu_i + 1]

\* the next character is looked at as a bracket: it is not escaped, it is
\* no backslash or quote itself, and no quoted run is open
OutsideQuotedRun ==
    /\ ~cu_st.escape
    /\ cu_st.in_string = None
    /\ ScanNextChar \notin {"\\", "\"", "'", BACKTICK}

StackTopMatches(ch) ==
    /\ cu_st.stack # <<>>
    /\ CloserOf(cu_st.stack[Len(cu_st.stack)]) = ch

\* one loop iteration treats the stack as the claim says
C10_StackStep ==
    cu_i' = cu_i + 1 =>
        LET ch == ScanNextChar
            st == cu_st.stack
        IN  IF OutsideQuotedRun /\ ch \in {"(", "[", "{"}
            THEN cu_st'.stack = st \o <<ch>>
            ELSE IF OutsideQuotedRun /\ ch \in {")", "]", "}"} /\ StackTopMatches(ch)
            THEN cu_st'.stack = SubSeq(st, 1, Len(st) - 1)
            ELSE cu_st'.stack = st

\* the returned value is the final stack depth, never negative, and the
\* three sample strings give 1, 2 and 3
C10_Result ==
    cu_ret # <<>> =>
        /\ cu_ret[1] = Len(cu_st.stack)
        /\ cu_ret[1] >= 0
        /\ cu_ret[1] = count_unclosed_brackets(cu_text)
        /\ cu_text = <<"(", "]">> => cu_ret[1] = 1
        /\ cu_text = <<"(", ")", "(", "[">> => cu_ret[1] = 2
        /\ cu_text = <<"(", "[", "{">> => cu_ret[1] = 3

\* C10: count_unclosed is the final depth of a stack on which, outside quoted
\* runs, every opening bracket is pushed and a closing bracket pops only the
\* matching bracket on top; a closer that mismatches the top or meets an
\* empty stack changes nothing; the result is never negative.
C10_CountUnclosedIsStackDepth == []C10_Result /\ [][C10_StackStep]_vars

\* the scan of '(]' has returned 1
C10_Witness ==
    /\ cu_text = <<"(", "]">>
    /\ cu_ret = <<1>>

\* one loop iteration treats escapes and quoted runs as the claim says
C11_QuoteStep ==
    cu_i' = cu_i + 1 =>
        LET ch == ScanNextChar
        IN  IF cu_st.escape
            THEN cu_st' = [cu_st EXCEPT !.escape = FALSE]
            ELSE IF ch = "\\"
            THEN cu_st' = [cu_st EXCEPT !.escape = TRUE]
            ELSE /\ ~cu_st'.escape
                 /\ IF ch \in {"\"", "'", BACKTICK}
                    THEN /\ cu_st'.stack = cu_st.stack
                         /\ cu_st'.in_string =
                                IF cu_st.in_string = None THEN ch
                                ELSE IF cu_st.in_string = ch THEN None
                                ELSE cu_st.in_string
                    ELSE /\ cu_st'.in_string = cu_st.in_string
                         /\ cu_st.in_string # None => cu_st'.stack = cu_st.stack

\* the four sample strings give 0
C11_Result ==
    cu_ret # <<>> =>
        /\ cu_text = <<"\"", ")", "(", "\"">> => cu_ret[1] = 0
        /\ cu_text = <<"'", ")", "(", "'">> => cu_ret[1] = 0
        /\ cu_text = <<BACKTICK, "(", BACKTICK>> => cu_ret[1] = 0
        /\ cu_text = <<"\"", "(", "\\", "\"">> => cu_ret[1] = 0

\* C11: a quoted run opened by a double quote, a single quote or a backquote
\* is closed only by the same unescaped character, brackets inside a run
\* are ignored, and a backslash makes the scan skip the one character that
\* follows it, inside or outside a run.
C11_QuotedRunsAndEscapes == []C11_Result /\ [][C11_QuoteStep]_vars

\* the scan of "(\" has returned 0: the escaped quote did not close the run
C11_Witness ==
    /\ cu_text = <<"\"", "(", "\\", "\"">>
    /\ cu_st.in_string = "\""
    /\ cu_ret = <<0>>

(***************************************************************************)
(* Balanced strings, defined without the scan's stack.                     *)
(***************************************************************************)
Brackets == {"(", "[", "{", ")", "]", "}"}

\* <<escaped, run>> for the character at index i of s: whether a backslash
\* escapes it, and the quote character of the run open when it is read
RECURSIVE QuoteContext(_, _)
QuoteContext(s, i) ==
    IF i = 1 THEN <<FALSE, None>>
    ELSE LET c == QuoteContext(s, i - 1)
             ch == s[i - 1]
         IN  IF c[1] THEN <<FALSE, c[2]>>
             ELSE IF ch = "\\" THEN <<TRUE, c[2]>>
             ELSE IF ch \in {"\"", "'", BACKTICK}
             THEN <<FALSE, IF c[2] = None THEN ch
                           ELSE IF c[2] = ch THEN None ELSE c[2]>>
             ELSE <<FALSE, c[2]>>

\* the unescaped bracket characters of s, in order
UnescapedBrackets(s) ==
    LET I == {i \in 1..Len(s) : s[i] \in Brackets /\ ~QuoteContext(s, i)[1]}
        f[k \in 0..Len(s)] ==
            IF k = 0 THEN <<>>
            ELSE IF k \in I THEN Append(f[k - 1], s[k]) ELSE f[k - 1]
    IN  f[Len(s)]

\* w is properly nested: it is empty, or removing some adjacent matching
\* pair leaves a properly nested sequence
RECURSIVE ProperlyNested(_)
ProperlyNested(w) ==
    \/ w = <<>>
    \/ \E k \in 1..(Len(w) - 1) :
        /\ w[k] \in {"(", "[", "{"}
        /\ w[k + 1] = CloserOf(w[k])
        /\ ProperlyNested(SubSeq(w, 1, k - 1) \o SubSeq(w, k + 2, Len(w)))

SingleLineBalanced(s) ==
    /\ \A i \in 1..Len(s) : s[i] \in Brackets => QuoteContext(s, i)[2] = None
    /\ ProperlyNested(UnescapedBrackets(s))

\* C12: for every balanced string, with its brackets properly nested,
\* unescaped and outside quotes, count_unclosed returns 0.
C12_BalancedGivesZero ==
    (cu_ret # <<>> /\ SingleLineBalanced(cu_text)) => cu_ret[1] = 0

\* the scan of '([])' has returned 0
C12_Witness ==
    /\ cu_text = <<"(", "[", "]", ")">>
    /\ SingleLineBalanced(cu_text)
    /\ cu_ret = <<0>>

(***************************************************************************)
(* Indent-unit detection.  The lines of the document and what makes a line *)
(* decide the unit, written without the model's block operators.           *)
(***************************************************************************)
LineStarts(t) == {0} \cup {i \in 1..Len(t) : t[i] = "\n"}
LineCount(t) == Cardinality(LineStarts(t))

\* the k-th line of t, k in 1..LineCount(t)
NthLine(t, k) ==
    LET st == CHOOSE x \in LineStarts(t) :
                  Cardinality({y \in LineStarts(t) : y < x}) = k - 1
    IN  LineAt(t, st)

StartsWithTab(l) == Len(l) > 0 /\ l[1] = "\t"

\* number of space characters in the leading whitespace of l
LeadingSpaces(l) == Cardinality({j \in 1..WsLen(l) : l[j] = " "})

\* l has non-blank content and at least 2 leading spaces
SpaceIndented(l) == WsLen(l) < Len(l) /\ LeadingSpaces(l) >= 2

\* the number of the first line that starts with a tab or is space
\* indented, 0 when there is none
FirstDeciding(t) ==
    LET D == {k \in 1..LineCount(t) :
                 StartsWithTab(NthLine(t, k)) \/ SpaceIndented(NthLine(t, k))}
    IN  IF D = {} THEN 0 ELSE CHOOSE k \in D : \A m \in D : k <= m

SomeLineStartsWithTab(t) ==
    \E k \in 1..LineCount(t) : StartsWithTab(NthLine(t, k))

TAB == <<"\t">>

\* C13 as stated: a tab is returned whenever some line starts with a tab,
\* whatever comes before that line.
C13_TabAnywhereWins ==
    \A c \in 1..Len(di_rets) :
        SomeLineStartsWithTab(text) => di_rets[c] = TAB

\* C13 amended: a tab is returned exactly when the first line, top to
\* bottom, that starts with a tab or is space indented (non-blank content,
\* at least 2 leading spaces) starts with a tab; a space-indented line
\* above the first tab line decides the unit instead.
C13_FirstDecidingLineTab ==
    \A c \in 1..Len(di_rets) :
        di_rets[c] = TAB <=>
            /\ FirstDeciding(text) # 0
            /\ StartsWithTab(NthLine(text, FirstDeciding(text)))

\* a tab line below a line that does not decide: the result is a tab
C13_Witness ==
    /\ text = <<" ", "a", "\n", "\t", "a">>
    /\ di_rets = <<TAB>>

C15_SameValue ==
    \A c, d \in 1..Len(di_rets) : di_rets[c] = di_rets[d]

\* no step of a call changes the document or the cursor
C15_ReadOnly ==
    /\ text' = text
    /\ pos' = pos
    /\ anchor' = anchor

Settled == hl_pending = 0 /\ ~hl_stale

\* The state block n of the document is highlighted from.
IncomingOf(n) == IF n = 1 THEN 0 ELSE hl_res[n - 1].state

\* Offsets of the triple-quote marker in a line.
TripleQuoteAt(line) ==
    {p \in 0..(Len(line) - 3) :
        line[p + 1] = "\"" /\ line[p + 2] = "\"" /\ line[p + 3] = "\""}

\* Where the start marker of python's other string pattern occurs.
TripleAposAt(line) ==
    {p \in 0..(Len(line) - 3) :
        line[p + 1] = "'" /\ line[p + 2] = "'" /\ line[p + 3] = "'"}

\* Bit of the triple-quote string, the first multiline pattern of python.
InString(state) == state % 2 = 1

StyledString(res, c) == res.formats[c + 1].kind = "STRING"

OpensString == <<"x", " ", "=", " ", "\"", "\"", "\"">>
InsideString == <<"m", "o", "r", "e", " ", "t", "e", "x", "t">>
ClosesString == <<"e", "n", "d", "\"", "\"", "\"", " ", "y">>

\* the three cases of the claim for one block: its text, the state it was
\* highlighted from and the result
C16_Block(line, incoming, res) ==
    /\ (line = OpensString /\ incoming = 0) => InString(res.state)
    /\ (InString(incoming) /\ TripleQuoteAt(line) = {}) =>
          /\ \A c \in 0..(Len(line) - 1) : StyledString(res, c)
          /\ InString(res.state)
    /\ \A p \in TripleQuoteAt(line) :
          (incoming = 1 /\ TripleQuoteAt(line) = {p}) =>
              /\ \A c \in 0..(p + 2) : StyledString(res, c)
              /\ ~InString(res.state)
              /\ \A i \in 1..Len(res.spans) :
                    (res.spans[i].kind = "STRING" /\ res.spans[i].start <= p)
                        => res.spans[i].end <= p + 3
              /\ TripleAposAt(line) = {} =>
                    \A c \in (p + 3)..(Len(line) - 1) : ~StyledString(res, c)

\* C16: with python active, the block x = """ highlighted from state 0 ends
\* inside the string; a block highlighted from inside the string with no
\* triple quote is a string over its whole length and stays inside; a block
\* highlighted from inside the string whose only triple quote is the closing
\* one is a string from offset 0 through the marker, ends outside, the
\* region's span stops at the marker, and nothing after the marker is
\* styled string unless the other string pattern starts there.
C16_RegionAcrossBlocks ==
    /\ (Settled /\ hl_language = "python") =>
          \A n \in 1..Len(hl_doc) :
              C16_Block(hl_doc[n], IncomingOf(n), hl_res[n])
    /\ (hl_call # <<>> /\ hl_language = "python") =>
          C16_Block(hl_call[1].line, hl_call[1].incoming, hl_call[1].result)

\* the three blocks of the scenario, re-highlighted under python
C16_Witness ==
    /\ Settled
    /\ hl_language = "python"
    /\ hl_last.op = "rehighlight"
    /\ hl_doc = <<OpensString, InsideString, ClosesString>>
    /\ <<hl_res[1].state, hl_res[2].state, hl_res[3].state>> = <<1, 1, 0>>
    /\ \A c \in 0..8 : StyledString(hl_res[2], c)
    /\ \A c \in 0..5 : StyledString(hl_res[3], c)
    /\ hl_res[3].formats[7] = PlainFormat /\ hl_res[3].formats[8] = PlainFormat

\* The languages the registry knows.
Supported == {"python", "javascript"}

\* C17: whenever the active language is not a supported one (set_language
\* was given an unknown name or None), both pattern lists are empty; a
\* highlight_block call made then from incoming state 0 records no span,
\* leaves every character plain and returns state 0, and so does every
\* block of a re-highlighted document.
C17_UnknownLanguageHighlightsNothing ==
    hl_language \notin Supported =>
        /\ hl_patterns = <<>>
        /\ hl_multiline = <<>>
        /\ (hl_call # <<>> /\ hl_call[1].incoming = 0) =>
              /\ hl_call[1].result.spans = <<>>
              /\ hl_call[1].result.state = 0
              /\ \A c \in 1..Len(hl_call[1].line) :
                    hl_call[1].result.formats[c] = PlainFormat
        /\ Settled =>
              \A n \in 1..Len(hl_doc) :
                  hl_res[n].spans = <<>> /\ hl_res[n].state = 0

\* set_language("no_such_lang") and then highlight_block("/*", 0): nothing
C17_Witness ==
    /\ hl_language = "no_such_lang"
    /\ hl_last.op = "highlight_block"
    /\ hl_call # <<>>
    /\ hl_call[1].line = <<"/", "*">>
    /\ hl_call[1].incoming = 0
    /\ hl_call[1].result.spans = <<>>
    /\ hl_call[1].result.state = 0

\* one step that is a call of set_language
C18_IsSetLanguage == hl_last'.op = "set_language" /\ hl_last' # hl_last

C18_Step ==
    C18_IsSetLanguage =>
        /\ hl_formats' = hl_formats
        /\ (hl_last'.name = hl_language /\ hl_language \in Supported) =>
              /\ ~hl_last'.loaded
              /\ UNCHANGED <<hl_language, hl_patterns, hl_multiline>>
              /\ UNCHANGED <<hl_doc, hl_res, hl_pending, hl_stale>>

\* C18: a call set_language(L) with the supported language L already active
\* loads no table, leaves language and both pattern lists as they were and
\* neither re-highlights a block nor makes a re-highlight due; and no call of
\* set_language, whatever the name, changes the format table.
C18_SetLanguageNoOp == [][C18_Step]_vars

\* set_language("python") was called with python active
C18_Witness ==
    /\ hl_last.op = "set_language"
    /\ hl_last.name = "python"
    /\ hl_last.language = "python"
    /\ ~hl_last.loaded
    /\ hl_language = "python"
    /\ hl_patterns = hl_last.patterns /\ hl_patterns # <<>>
    /\ hl_formats = hl_last.formats

\* every block carries what a full top-to-bottom re-highlight gives it
C19_Consistent ==
    hl_res = rehighlight(hl_doc, hl_patterns, hl_multiline, hl_formats)

\* C19: the block-by-block re-highlight that follows an edit comes to an
\* end, and whenever no block is pending (and no full re-highlight is owed
\* for a language change) every block's stored state, spans and formats
\* are those of a full top-to-bottom re-highlight.
C19_EventualConsistency ==
    /\ [](Settled => C19_Consistent)
    /\ (hl_pending # 0) ~> (hl_pending = 0)

\* block 1 was edited to open a string that block 3 closes; the host is done
C19_Witness ==
    /\ Settled
    /\ hl_last.op = "edit" /\ hl_last.block = 1
    /\ hl_language = "python"
    /\ hl_doc = <<OpensString, InsideString, ClosesString>>
    /\ <<hl_res[1].state, hl_res[2].state, hl_res[3].state>> = <<1, 1, 0>>

EmptyAcc == [spans |-> <<>>, highlighted |-> {}, state |-> 0]
SingleAcc(line, patterns) == single_line_pass(patterns, 1, line, EmptyAcc)
MultiAcc(line, patterns, multi, k) ==
    multiline_pass(SubSeq(multi, 1, k), 1, line, 0, SingleAcc(line, patterns))

\* The matches of the single-line pattern number j, and whether a match was
\* recorded as a span of that pattern's kind.
MatchesOf(line, patterns, j) ==
    LET ms == finditer(patterns[j].matcher, line, 0)
    IN  {ms[i] : i \in 1..Len(ms)}
Recorded(spans, r, kind) ==
    \E i \in 1..Len(spans) :
        spans[i] = [start |-> r[1], end |-> r[2], kind |-> kind]
RangesMeet(a, b) == a[1] < b[2] /\ b[1] < a[2]

\* C29 for one block: the single-line spans open the block's spans, no two
\* of them share an offset, and a match is recorded exactly when no
\* recorded match of an earlier pattern overlaps it.
C29_Block(line, patterns, result) ==
    LET sl == SingleAcc(line, patterns).spans
    IN  /\ Len(sl) <= Len(result.spans)
        /\ SubSeq(result.spans, 1, Len(sl)) = sl
        /\ \A i, j \in 1..Len(sl) :
              i # j => sl[i].end <= sl[j].start \/ sl[j].end <= sl[i].start
        /\ \A j \in 1..Len(patterns) :
              \A b \in MatchesOf(line, patterns, j) :
                  Recorded(sl, b, patterns[j].kind) <=>
                      ~\E i \in 1..(j - 1) :
                          \E a \in MatchesOf(line, patterns, i) :
                              /\ RangesMeet(a, b)
                              /\ Recorded(sl, a, patterns[i].kind)

\* C29: the spans recorded by the single-line pass of a highlight_block
\* call never overlap one another (spans are half-open, so they may touch),
\* and where matches of two single-line patterns overlap the match of the
\* earlier pattern is recorded and that of the later pattern is skipped.
C29_SingleLineSpansDisjoint ==
    /\ \A i \in 1..Len(hl_call) :
          C29_Block(hl_call[i].line, hl_call[i].patterns, hl_call[i].result)
    /\ Settled =>
          \A n \in 1..Len(hl_doc) :
              C29_Block(hl_doc[n], hl_patterns, hl_res[n])
C29_Witness ==
    /\ hl_call # <<>>
    /\ hl_call[1].line = <<"/", "/", "a">>
    /\ hl_call[1].patterns = LANGUAGES["javascript"].patterns
    /\ hl_call[1].incoming = 0
    /\ hl_call[1].result.spans =
          << [start |-> 0, end |-> 3, kind |-> "COMMENT"] >>

\* The offsets at which the marker of matcher m occurs in line.
MarkerAt(m, line) ==
    {p \in 0..(Len(line) - Len(m.s)) : SubSeq(line, p + 1, p + Len(m.s)) = m.s}

\* C30 for one block highlighted from outside every region: for each
\* multiline pattern, no span it records starts at a start marker that
\* touches an offset claimed before the pattern ran, and when every start
\* marker in the line does so the pattern records nothing and its outgoing
\* bit is clear.
C30_Block(line, patterns, multi, result) ==
    /\ result.spans = MultiAcc(line, patterns, multi, Len(multi)).spans
    /\ result.state = MultiAcc(line, patterns, multi, Len(multi)).state
    /\ \A k \in 1..Len(multi) :
          LET before == MultiAcc(line, patterns, multi, k - 1)
              after == MultiAcc(line, patterns, multi, k)
              new == SubSeq(after.spans, Len(before.spans) + 1,
                            Len(after.spans))
              n == Len(multi[k].start.s)
              inside == {p \in MarkerAt(multi[k].start, line) :
                            \E q \in p..(p + n - 1) : q \in before.highlighted}
          IN  /\ \A i \in 1..Len(new) : new[i].start \notin inside
              /\ inside = MarkerAt(multi[k].start, line) =>
                    new = <<>> /\ ~has_bit(after.state, k)

\* C30: when a block does not start inside a multiline region, a start
\* marker of a multiline pattern that lies inside an already claimed span
\* (a triple quote inside a single-line comment, or inside the region of
\* another multiline pattern) opens no region: no span of that pattern is
\* recorded from it and the pattern's outgoing bit stays clear.
C30_ClaimedStartOpensNothing ==
    /\ \A i \in 1..Len(hl_call) :
          hl_call[i].incoming = 0 =>
              C30_Block(hl_call[i].line, hl_call[i].patterns,
                        hl_call[i].multiline, hl_call[i].result)
    /\ Settled =>
          \A n \in 1..Len(hl_doc) :
              IncomingOf(n) = 0 =>
                  C30_Block(hl_doc[n], hl_patterns, hl_multiline, hl_res[n])
C30_Witness ==
    /\ hl_call # <<>>
    /\ hl_call[1].line = <<"\"", "\"", "\"", "'", "'", "'">>
    /\ hl_call[1].multiline = LANGUAGES["python"].multiline
    /\ hl_call[1].incoming = 0
    /\ hl_call[1].result.spans =
          << [start |-> 0, end |-> 6, kind |-> "STRING"] >>
    /\ hl_call[1].result.state = 1

(***************************************************************************)
(* Claims about the split view and the tab widget.                         *)
(***************************************************************************)
\* The manager fields that the claims speak of.
ManagerFields(m) ==
    [panes |-> m.panes, is_split |-> m.is_split,
     original_size |-> m.original_size, win |-> m.win]

\* s without every occurrence of x.
Without(s, x) == SelectSeq(s, LAMBDA q : q # x)

\* What a close that leaves n panes does to the window and the stored size:
\* with one pane left the window has the stored size (its own when none is
\* stored), is_split is false and nothing is stored; with more panes left,
\* is_split, the stored size and the window are as before.
ClosedTo(before, after) ==
    IF Len(after.panes) = 1
    THEN /\ ~after.is_split
         /\ after.original_size = None
         /\ after.win = IF before.original_size # None
                        THEN before.original_size ELSE before.win
    ELSE /\ after.is_split = before.is_split
         /\ after.original_size = before.original_size
         /\ after.win = before.win

\* C21: at every moment is_split is true exactly when split_count() is
\* greater than 1, and split_count() is at least 1; a new manager has
\* is_split false, one pane and no stored size.
C21_Counterexample ==
    /\ sv.is_split <=> split_count(sv) > 1
    /\ split_count(sv) >= 1
    /\ sv_last.op = "init" =>
          ~sv.is_split /\ split_count(sv) = 1 /\ sv.original_size = None

\* C22: a close_pane that brings the number of panes to exactly 1 resizes
\* the window to the stored size, sets is_split false and resets
\* original_size to None; a close_pane that leaves more than one pane
\* leaves original_size and is_split as they were.
C22_Step ==
    (sv_last'.op = "close_pane" /\ sv_last'.ret) => ClosedTo(sv, sv')
C23_Step ==
    /\ sv_last'.op = "store_original_size" =>
          sv' = [sv EXCEPT !.original_size =
                    IF sv.original_size = None THEN sv_last'.size
                    ELSE sv.original_size]
    /\ (/\ sv_last'.op \in {"split", "tab_split"}
        /\ sv.original_size # None
        /\ split_count(sv') > 1) =>
          sv'.original_size = sv.original_size
C23_StoredSizeIsKept == [][C23_Step]_vars
C23_Witness ==
    /\ sv_last.op \in {"split", "tab_split"}
    /\ split_count(sv) > 2
    /\ sv.original_size # None /\ sv.original_size # sv.win

\* C24: close_pane(pane) returns False and changes no manager field when
\* pane is not among the panes or is the only pane; otherwise it returns
\* True and removes exactly that pane, so that the count drops by one.
C24_Step ==
    sv_last'.op = "close_pane" =>
        IF ~contains(sv.panes, sv_last'.pane) \/ split_count(sv) = 1
        THEN /\ ~sv_last'.ret
             /\ ManagerFields(sv') = ManagerFields(sv)
        ELSE /\ sv_last'.ret
             /\ sv'.panes = Without(sv.panes, sv_last'.pane)
             /\ split_count(sv') = split_count(sv) - 1
C24_ClosePaneRefusesOrRemoves == [][C24_Step]_vars
C24_Witness ==
    /\ sv_last.op = "close_pane" /\ ~sv_last.ret
    /\ sv.panes = <<sv_last.pane>>

\* C25: close_all_splits leaves exactly one pane, the one that was first in
\* the list before the call, with is_split false.
C25_Step ==
    sv_last'.op = "close_all_splits" =>
        /\ sv'.panes = <<sv.panes[1]>>
        /\ ~sv'.is_split
C25_Counterexample == [][C25_Step]_vars

\* C26: closing the last remaining tab of a tab widget never removes the
\* tab.  If the tab widget is that of a pane and other panes exist, that
\* pane is closed: the count drops by one and, when one pane remains,
\* is_split is false and the window has the stored size.  If the pane is the
\* only one, or the tab widget belongs to no pane, nothing changes.
C26_Step ==
    (/\ sv_last'.op = "close_tab"
     /\ Len(sv.tabs[sv_last'.tw].tabs) = 1) =>
        LET tw == sv_last'.tw
        IN  /\ Len(sv'.tabs[tw].tabs) = 1
            /\ IF contains(sv.panes, tw) /\ split_count(sv) > 1
               THEN /\ sv'.panes = Without(sv.panes, tw)
                    /\ split_count(sv') = split_count(sv) - 1
                    /\ ClosedTo(sv, sv')
               ELSE sv' = sv
C27_Step ==
    sv_last'.op = "open_file" =>
        LET before == sv.tabs[sv_last'.tw]
            after == sv'.tabs[sv_last'.tw]
            file_path == sv_last'.file_path
            c == current_tab(before)
            blank == /\ c # -1
                     /\ ~before.tabs[c + 1].is_modified
                     /\ before.tabs[c + 1].file_path = None
                     /\ before.tabs[c + 1].text = ""
        IN  /\ (Len(after.tabs) = Len(before.tabs)) <=> blank
            /\ blank => /\ after.current = before.current
                        /\ \A i \in 1..Len(before.tabs) :
                              i # c + 1 => after.tabs[i] = before.tabs[i]
            /\ ~blank => /\ Len(after.tabs) = Len(before.tabs) + 1
                         /\ after.current = Len(before.tabs)
                         /\ SubSeq(after.tabs, 1, Len(before.tabs))
                               = before.tabs
            /\ file_path \in ReadablePaths =>
                  after.tabs[after.current + 1] =
                      [text |-> read_file(file_path),
                       file_path |-> file_path, is_modified |-> FALSE]
C27_OpenFileChoosesTab == [][C27_Step]_vars
C27_Witness ==
    /\ sv_last.op = "open_file" /\ sv_last.file_path = "f"
    /\ Len(sv.tabs[0].tabs) = 2 /\ sv.tabs[0].current = 1
    /\ sv.tabs[0].tabs[1].is_modified
    /\ sv.tabs[0].tabs[2] =
          [text |-> "x", file_path |-> "f", is_modified |-> FALSE]

\* C28: open_file returns False whenever the file cannot be read, adding no
\* tab and leaving the tab widget as it was, and returns True only when the
\* content was loaded.
C28_Step ==
    sv_last'.op = "open_file" =>
        /\ sv_last'.file_path \notin ReadablePaths =>
              /\ ~sv_last'.ret
              /\ sv'.tabs[sv_last'.tw] = sv.tabs[sv_last'.tw]
        /\ sv_last'.ret => sv_last'.file_path \in ReadablePaths
C28_Counterexample == [][C28_Step]_vars

\* C34: _handle_split always adds exactly one pane: the panes of before are
\* kept in their order and one pane that was not in the list is appended,
\* from whichever pane and in whichever direction the drop came.
\* _handle_tab_split adds exactly one pane when the tab index is within the
\* list of the source tab widget: one pane that was not in the list is
\* appended, and the panes of before are kept in their order, all of them
\* unless the dragged tab was the last tab of its pane, which the close of
\* that tab closes.  With an index out of range the list of panes is
\* unchanged.
C34_Added(before, after) ==
    /\ Len(after.panes) >= 1
    /\ ~contains(before.panes, after.panes[Len(after.panes)])
    /\ after.panes[Len(after.panes)] \in PaneIds
C34_Step ==
    /\ sv_last'.op = "split" =>
          /\ C34_Added(sv, sv')
          /\ sv'.panes = Append(sv.panes, sv'.panes[Len(sv'.panes)])
          /\ split_count(sv') = split_count(sv) + 1
    /\ (sv_last'.op = "tab_split" /\ sv_last'.found) =>
          LET tw == sv_last'.tw
              last_tab == contains(sv.panes, tw) /\ Len(sv.tabs[tw].tabs) = 1
              kept == IF last_tab THEN Without(sv.panes, tw) ELSE sv.panes
          IN  /\ C34_Added(sv, sv')
              /\ sv'.panes = Append(kept, sv'.panes[Len(sv'.panes)])
              /\ ~last_tab => split_count(sv') = split_count(sv) + 1
    /\ (sv_last'.op = "tab_split" /\ ~sv_last'.found) =>
          sv'.panes = sv.panes
C34_SplitAddsOnePane == [][C34_Step]_vars
C34_Witness ==
    /\ sv_last.op = "tab_split" /\ sv_last.found
    /\ sv_last.tw = 1 /\ sv_last.tab_index = 1
    /\ sv.panes = <<1, 2>>
    /\ Len(sv.tabs[1].tabs) = 1 /\ Len(sv.tabs[2].tabs) = 1

\* C40: after any sequence of new_tab, _close_tab, tab selection and moves
\* of tabs in the tab bar, current_tab() is the tab whose editor is the page
\* the tab widget displays.
C40_Counterexample ==
    current_tab(sv.tabs[0]) + 1 = displayed(sv.tabs[0])

\* C35: a tab widget always holds at least one tab, and the tab bar as many
\* pages as _tabs has tabs.  It starts with exactly one.  new_tab appends
\* exactly one tab and makes it current, also when the file cannot be read.
\* _close_tab removes exactly the given tab, and one page, when the tab is
\* in _tabs and there is more than one tab; for the only tab, and for a tab
\* that is not in _tabs, nothing is removed.
C35_Start ==
    /\ Len(sv.tabs[0].tabs) = 1
    /\ Len(sv.tabs[0].pages) = 1
C35_Step ==
    LET before == sv.tabs[0]
        after == sv'.tabs[0]
        n == Len(before.tabs)
    IN  /\ Len(after.tabs) >= 1
        /\ Len(after.pages) = Len(after.tabs)
        /\ sv_last'.op = "new_tab" =>
              /\ Len(after.tabs) = n + 1
              /\ SubSeq(after.tabs, 1, n) = before.tabs
              /\ Len(after.pages) = Len(before.pages) + 1
              /\ current_tab(after) = n
              /\ displayed(after) = n + 1
        /\ sv_last'.op = "close_tab" =>
              IF n > 1
              THEN /\ after.tabs =
                         SubSeq(before.tabs, 1, sv_last'.index) \o
                         SubSeq(before.tabs, sv_last'.index + 2, n)
                   /\ Len(after.pages) = Len(before.pages) - 1
              ELSE sv' = sv
        /\ sv_last'.op = "close_foreign_tab" => sv' = sv
C39_Moved(before, after, tw, index) ==
    LET tab == before.tabs[tw].tabs[index + 1]
        new_pane == after.panes[Len(after.panes)]
        n == Len(before.tabs[tw].tabs)
    IN  /\ after.tabs[new_pane].tabs = <<tab>>
        /\ after.tabs[new_pane].titles =
              <<[name |-> tab.file_path, star |-> tab.is_modified]>>
        /\ \/ after.tabs[tw].tabs =
                  SubSeq(before.tabs[tw].tabs, 1, index) \o
                  SubSeq(before.tabs[tw].tabs, index + 2, n)
           \/ /\ contains(before.panes, tw)
              /\ ~contains(after.panes, tw)
C39_Step ==
    (sv_last'.op = "tab_split" /\ sv_last'.found) =>
        C39_Moved(sv, sv', sv_last'.tw, sv_last'.tab_index)
C39_Counterexample == [][C39_Step]_vars

\* The closing character of an opening bracket or a quote.
C36_Closer(k) == IF k \in QUOTE_CHARS THEN k ELSE BRACKET_PAIRS[k]

\* Events i and i + 1 type an opening bracket or a quote and then its
\* closing character, and there is no selection before event i.
C36_TypedPair(i) ==
    /\ i + 1 <= Len(log)
    /\ log[i].key \in (DOMAIN BRACKET_PAIRS) \cup QUOTE_CHARS
    /\ log[i + 1].key = C36_Closer(log[i].key)
    /\ NoSelection(log[i].before)

\* After event i + 1 the text is that of before event i with one pair at
\* the cursor, and the cursor is two further, without a selection.
C36_OnePair(i) ==
    LET b == log[i].before
        a == StateAfter(i + 1)
    IN  /\ a.text = Splice(b.text, b.pos, b.pos,
                           <<log[i].key, C36_Closer(log[i].key)>>)
        /\ a.pos = b.pos + 2
        /\ NoSelection(a)

\* The two characters after the cursor before event i are both the quote
\* that is typed.
C36_TwoQuotesAhead(i) ==
    LET b == log[i].before
    IN  /\ log[i].key \in QUOTE_CHARS
        /\ NextChar(b.text, b.pos) = log[i].key
        /\ NextChar(b.text, b.pos + 1) = log[i].key

\* C36 as stated: with no selection, an opening bracket or a quote followed
\* at once by its closing character leaves the original text with exactly
\* one pair inserted at the cursor p, and the cursor at p + 2.
C36_Counterexample ==
    \A i \in 1..Len(log) : C36_TypedPair(i) => C36_OnePair(i)

\* C36 amended: the same, unless a quote is typed where the next two
\* characters are already that quote; both keystrokes then step over them
\* and the text is unchanged.
C36_TypeThrough ==
    \A i \in 1..Len(log) :
        C36_TypedPair(i) =>
            IF C36_TwoQuotesAhead(i)
            THEN /\ StateAfter(i + 1).text = log[i].before.text
                 /\ StateAfter(i + 1).pos = log[i].before.pos + 2
            ELSE C36_OnePair(i)
C36_Witness ==
    /\ Len(log) = 2
    /\ C36_TypedPair(1)
    /\ log[1].key = "\""
    /\ log[1].before.text = <<"a", "\"">>
    /\ log[1].before.pos = 1
    /\ text = <<"a", "\"", "\"", "\"">>
    /\ pos = 3

\* C37: after Enter without a selection on a line whose part before the
\* cursor has no unclosed bracket and whose part after the cursor does not
\* start, after blanks, with a closing bracket, the line the cursor lands on
\* has the leading whitespace of the original line, at every cursor column.
C37_Counterexample ==
    \A i \in 1..Len(log) :
        LET e == log[i]
            b == e.before
            a == StateAfter(i)
        IN  (/\ e.key = "Enter"
             /\ NoSelection(b)
             /\ UnclosedBefore(b) = 0
             /\ ~CloserAhead(b)) =>
                LineIndent(a) = LineIndent(b)

\* C33: after any sequence of key events the cursor and the anchor are
\* within 0..Len(text); every offset the quote, skip, backspace-pair and
\* tab-jump handlers pass to characterAt is within 0..characterCount - 1;
\* and at the boundaries of the document the handlers report that nothing
\* was done and leave the editor as it was: skip and tab jump at the end,
\* backspace pair at the start and at the end.
C33_WithinBounds ==
    /\ pos \in 0..Len(text)
    /\ anchor \in 0..Len(text)
    /\ \A i \in 1..Len(log) :
          LET e == log[i]
              b == e.before
              atEnd == b.pos = Len(b.text)
          IN  /\ character_lookups(b, e.key) \subseteq
                     0..(characterCount(b.text) - 1)
              /\ e.mid.pos \in 0..Len(e.mid.text)
              /\ (e.key \in CLOSING_BRACKETS /\ atEnd) =>
                     ~e.handled /\ e.mid = b
              /\ (e.key = "Tab" /\ atEnd) => ~e.handled /\ e.mid = b
              /\ (e.key = "Backspace" /\ (b.pos = 0 \/ atEnd)) =>
                     ~e.handled /\ e.mid = b
C33_Witness ==
    /\ Len(log) = 2
    /\ log[1].key = "(" /\ log[1].before = Doc(<<>>, 0, 0)
    /\ log[2].key = "Backspace" /\ log[2].handled
    /\ backspace_pair_lookups(log[2].before) = {0, 1}
    /\ text = <<>> /\ pos = 0

\* A state with at most one bit of the multiline patterns set.
C38_AtMostOneBit(state) ==
    \A j, k \in 1..Len(LANGUAGES["python"].multiline) :
        (has_bit(state, j) /\ has_bit(state, k)) => j = k

\* C38: for a language with two multiline patterns, the outgoing state of
\* a block highlighted from state 0, and of every block of a document that
\* is highlighted from state 0 at its first block, has at most one bit set.
C38_Counterexample ==
    /\ \A i \in 1..Len(hl_call) :
          (hl_call[i].incoming = 0 /\ Len(hl_call[i].multiline) >= 2) =>
              C38_AtMostOneBit(hl_call[i].result.state)
    /\ \A n \in 1..Len(hl_res) : C38_AtMostOneBit(hl_res[n].state)

\* The smallest element of a non-empty set of offsets.
C31_First(S) == CHOOSE x \in S : \A y \in S : x <= y

\* C31 for one block and the multiline pattern number k.  claimed is what
\* the single-line pass and the patterns before k have highlighted.
C31_Pattern(line, incoming, patterns, multi, result, k) ==
    LET p == multi[k]
        ns == Len(p.start.s)
        ne == Len(p.end.s)
        claimed == multiline_pass(SubSeq(multi, 1, k - 1), 1, line, incoming,
                                  SingleAcc(line, patterns)).highlighted
        E == MarkerAt(p.end, line)
        free(from) == {x \in MarkerAt(p.start, line) :
                          /\ x >= from
                          /\ \A q \in x..(x + ns - 1) : q \notin claimed}
        styled(a, b) ==
            /\ a < b => Recorded(result.spans, <<a, b>>, p.kind)
            /\ \A c \in (a + 1)..b : result.formats[c].kind = p.kind
        set == has_bit(result.state, k)
    IN  IF has_bit(incoming, k)
        THEN IF E = {}
             THEN styled(0, Len(line)) /\ set
             ELSE LET rest == C31_First(E) + ne
                  IN  /\ styled(0, rest)
                      /\ free(rest) = {} => ~set
                      /\ (/\ free(rest) # {}
                          /\ \A x \in E : x < C31_First(free(rest)) + ns)
                            => set
        ELSE /\ free(0) = {} => ~set
             /\ free(0) # {} =>
                   LET s0 == C31_First(free(0))
                       ends == {x \in E : x >= s0 + ns}
                   IN  IF ends = {}
                       THEN styled(s0, Len(line)) /\ set
                       ELSE /\ styled(s0, C31_First(ends) + ne)
                            /\ free(C31_First(ends) + ne) = {} => ~set

\* C31: for a block whose incoming state has the bit of pattern k set, a
\* line with k's end marker is styled as k's kind from offset 0 through the
\* marker and the scan goes on behind it: with no further start the bit is
\* clear, with a further start and no end marker behind it the bit is set
\* again; a line without the end marker is styled whole and the bit stays
\* set.  For a block that does not start inside the region, a start with an
\* end marker behind it is styled through the marker and leaves the bit
\* clear when no further start follows; a start with no end marker behind
\* it is styled to the end of the line and sets the bit.
C31_Block(line, incoming, patterns, multi, result) ==
    \A k \in 1..Len(multi) :
        C31_Pattern(line, incoming, patterns, multi, result, k)
C31_RegionEndsAndRestarts ==
    /\ \A i \in 1..Len(hl_call) :
          C31_Block(hl_call[i].line, hl_call[i].incoming, hl_call[i].patterns,
                    hl_call[i].multiline, hl_call[i].result)
    /\ Settled =>
          \A n \in 1..Len(hl_doc) :
              C31_Block(hl_doc[n], IncomingOf(n), hl_patterns, hl_multiline,
                        hl_res[n])
C31_Witness ==
    /\ hl_call # <<>>
    /\ hl_call[1].line = <<"*", "/", "a", "/", "*">>
    /\ hl_call[1].multiline = LANGUAGES["javascript"].multiline
    /\ hl_call[1].incoming = 1
    /\ hl_call[1].result.state = 1
    /\ Recorded(hl_call[1].result.spans, <<0, 2>>, "COMMENT")
    /\ Recorded(hl_call[1].result.spans, <<3, 5>>, "COMMENT")

\* C32: every iteration of a scan loop of highlight_block that does not end
\* the loop moves the offset of the next search strictly to the right,
\* never past the end of the line, so a loop makes at most one iteration
\* per character and one more to end, whatever the line, the incoming
\* state and the patterns, patterns of the empty string included: a match
\* of length zero is never reported.
C32_Step ==
    LET before == hl_call[1]
        after == hl_call'[1]
    IN  /\ after.from <= Len(before.line)
        /\ ~after.done => after.from > before.from
        /\ after.done => after.from = before.from
        /\ after.steps <= Len(before.line) + 1
C32_ScanAdvances == [][C32_Step]_vars
C32_Witness ==
    /\ hl_call # <<>>
    /\ hl_last.op = "scan"
    /\ hl_call[1].done /\ hl_call[1].multi
    /\ hl_call[1].line = <<"/", "*", "/", "*">>
    /\ hl_call[1].start = Lit(<<"/">>) /\ hl_call[1].end = Lit(<<"*">>)
    /\ hl_call[1].claimed = {}
    /\ hl_call[1].from = 4
    /\ hl_call[1].steps = 3

====
